---- MODULE Spec2Model ----
(***************************************************************************)
(* Model of the OpenStack autoscaler provider: the provider's node-group   *)
(* directory (pkg/provider/provider.go), the node group with its scaling   *)
(* operations, attribution and template cache (the provider package part   *)
(* of pkg/grpc/grpc_server.go) and the gRPC handlers in front of them.     *)
(*                                                                         *)
(* Strings the code inspects character by character (instance names,       *)
(* group ids, provider ids) are sequences of one-character strings, so     *)
(* that strings.Contains and strings.TrimPrefix are computed, not assumed. *)
(***************************************************************************)
EXTENDS Integers, Sequences, FiniteSets, TLC

VARIABLES
    nodeGroups,   \* OpenStackProvider.nodeGroups: group id -> reference into heap
    heap,         \* the OpenStackNodeGroup objects allocated so far, each with its mutex
    pmutex,       \* OpenStackProvider.mutex: its writer and its readers
    servers,      \* the compute backend's instance set
    nextID,       \* the backend's id allocator
    catalog,      \* the compute backend's flavor catalog
    now,          \* the clock, in minutes
    pc,           \* per worker: position in the request it is handling
    req,          \* per worker: the request in hand
    loc,          \* per worker: the handler's local variables
    ret,          \* per worker: the response of the finished request
    calls,        \* per worker: backend calls issued by the request in hand
    disturbed,    \* per worker: some other actor changed the backend meanwhile
    probe,        \* attribution probes: the (server, group, answer) in hand
    boot          \* func main: its position, and whether validation has passed

vars == <<nodeGroups, heap, pmutex, servers, nextID, catalog, now,
          pc, req, loc, ret, calls, disturbed, probe, boot>>

-----------------------------------------------------------------------------
(* Bounds of the model.                                                    *)

\* the backend admits this many instance creations (its quota)
MaxServers == 2
\* the clock stops advancing here
MaxTime == 12
\* the longest node list a DeleteNodes request carries
MaxNodes == 2
\* the largest |delta| a scaling request carries
MaxDelta == 2

Workers == {"w1", "w2"}

Nil == "nil"

\* the nil *OpenStackNodeGroup: no reference into heap
NilRef == 0

-----------------------------------------------------------------------------
(* Strings.                                                                *)

\* strings.HasPrefix(s, prefix)
HasPrefix(s, prefix) ==
    /\ Len(s) >= Len(prefix)
    /\ SubSeq(s, 1, Len(prefix)) = prefix

\* strings.TrimPrefix(s, prefix): s without the leading prefix, or s itself
TrimPrefix(s, prefix) ==
    IF HasPrefix(s, prefix) THEN SubSeq(s, Len(prefix) + 1, Len(s)) ELSE s

\* strings.Index(s, substr): the first offset at which substr occurs, or -1
Index(s, substr) ==
    LET hits == {i \in 0..(Len(s) - Len(substr)) :
                    SubSeq(s, i + 1, i + Len(substr)) = substr}
    IN  IF hits = {} THEN -1
        ELSE CHOOSE i \in hits : \A j \in hits : i <= j

\* strings.Contains(s, substr)
Contains(s, substr) == Index(s, substr) >= 0

\* const ProviderName = "openstack"
ProviderName == <<"o","p","e","n","s","t","a","c","k">>

\* ProviderName + "://"
ProviderPrefix == ProviderName \o <<":","/","/">>

-----------------------------------------------------------------------------
(* Instances and attribution.                                              *)

NoMetadata == [k \in {} |-> <<>>]

\* a servers.Server as far as the provider reads it
Server(id, name, metadata, status) ==
    [ID |-> id, Name |-> name, Metadata |-> metadata, Status |-> status]

\* the mutant: the name fallback is consulted even when the tag is present
ContainsNodeTagOrName(id, server) ==
    \/ "nodegroup" \in DOMAIN server.Metadata /\ server.Metadata["nodegroup"] = id
    \/ Contains(server.Name, id)

\* OpenStackNodeGroup.ContainsNode for the group with Config.ID = id
ContainsNode(id, server) ==
    IF "nodegroup" \in DOMAIN server.Metadata
    THEN server.Metadata["nodegroup"] = id
    ELSE Contains(server.Name, id)

\* the mutant: every listed instance is taken for the group's own
getInstancesUnfiltered(id, listed) == listed

\* getInstances: the listed servers that ContainsNode attributes to the group
getInstances(id, listed) == {s \in listed : ContainsNode(id, s)}

\* the mutant: every attributed instance is counted, whatever its status
TargetSizeAnyStatus(id, listed) == Cardinality(getInstances(id, listed))

\* TargetSize: the attributed instances that are ACTIVE or BUILD
TargetSize(id, listed) ==
    Cardinality({s \in getInstances(id, listed) : s.Status = "ACTIVE" \/ s.Status = "BUILD"})

\* strconv of a non-negative int, as fmt's %d prints it
RECURSIVE Decimal(_)
Decimal(n) ==
    LET digit == <<"0","1","2","3","4","5","6","7","8","9">>[(n % 10) + 1]
    IN  IF n < 10 THEN <<digit>> ELSE Decimal(n \div 10) \o <<digit>>

-----------------------------------------------------------------------------
(* Node group configurations and objects.                                  *)

G1 == <<"g","1">>
G  == <<"g">>
GX == <<"x">>

\* a configuration without labels of its own
NoLabels == [k \in {} |-> ""]

\* a config.NodeGroupConfig, as far as the provider reads it
Config(id, min, max, flavor, imageName, imageID, metadata) ==
    [ID |-> id, MinSize |-> min, MaxSize |-> max, FlavorName |-> flavor,
     ImageName |-> imageName, ImageID |-> imageID, Metadata |-> metadata,
     Labels |-> NoLabels]

\* a sync.RWMutex nobody holds: no writer, no readers, nobody waiting in Lock
FreeMutex == [w |-> Nil, r |-> {}, q |-> {}]

\* the mutant: Lock waits for nobody
CanLockAlways(m) == TRUE

\* sync.RWMutex: Lock waits for the writer and for every reader to leave, RLock
\* for the writer and for every Lock that is waiting
CanLock(m)  == m.w = Nil /\ m.r = {}
CanRLock(m) == m.w = Nil /\ m.q = {}

\* the nil *apiv1.Node
NoTemplate == [nil |-> TRUE]

\* the zero time.Time
ZeroTime == -1

\* NewOpenStackNodeGroup: a fresh object, its cache empty (zero values)
NewOpenStackNodeGroup(cfg) ==
    [Config |-> cfg, mutex |-> FreeMutex, templateNodeInfo |-> NoTemplate,
     lastRefresh |-> ZeroTime]

\* the mutant: an id the directory does not hold is answered with the first group
GetNodeGroupOrFirst(id) ==
    IF id \in DOMAIN nodeGroups THEN nodeGroups[id]
    ELSE IF Len(heap) > 0 THEN 1 ELSE NilRef

\* OpenStackProvider.GetNodeGroup: p.nodeGroups[id], nil when absent
GetNodeGroup(id) == IF id \in DOMAIN nodeGroups THEN nodeGroups[id] ELSE NilRef

\* the configuration of the group a worker's request resolved
ConfigOf(w) == heap[loc[w].ng].Config

-----------------------------------------------------------------------------
(* Workers: one per protocol request in flight.                            *)

NoConfig  == Config(<<>>, 0, 0, "", "", "", NoMetadata)
NoRequest == [op |-> Nil, id |-> <<>>, delta |-> 0, nodes |-> <<>>, cfg |-> NoConfig,
              defaults |-> FALSE]
NoLocals  == [ng |-> NilRef, currentSize |-> 0, i |-> 0, err |-> Nil, visited |-> {}]
NoReply   == [code |-> Nil, err |-> Nil, ng |-> NilRef, node |-> NoTemplate,
              size |-> 0, instances |-> {}, obj |-> Nil, label |-> Nil,
              gpuTypes |-> {Nil}]
NoCalls   == [list |-> 0, create |-> 0, delete |-> 0, flavor |-> 0, get |-> 0,
              missed |-> 0, dropped |-> {}]

Request(op, id, delta, nodes) ==
    [op |-> op, id |-> id, delta |-> delta, nodes |-> nodes, cfg |-> NoConfig,
     defaults |-> FALSE]

\* status.Errorf(code, ...): the handler answers and its worker is finished
Reply(w, code, err) ==
    /\ pc'  = [pc EXCEPT ![w] = "done"]
    /\ ret' = [ret EXCEPT ![w] = [NoReply EXCEPT !.code = code, !.err = err]]

Goto(w, label) ==
    /\ pc' = [pc EXCEPT ![w] = label]
    /\ UNCHANGED ret

\* a backend mutation by worker w (or by the backend itself, w = Nil) is seen
\* by every other request in flight
Disturb(w) ==
    [v \in Workers |-> IF v # w /\ pc[v] # "idle" THEN TRUE ELSE disturbed[v]]

-----------------------------------------------------------------------------
(* The compute backend, as the provider's calls see it.                    *)

\* instance names: random-42, g1-worker-07, other-3
RandomName == <<"r","a","n","d","o","m","-","4","2">>
WorkerName == <<"g","1","-","w","o","r","k","e","r","-","0","7">>
OtherName  == <<"o","t","h","e","r","-","3">>

\* the instances found on the backend when the provider starts
PreExisting ==
    { Server(<<"a">>, RandomName, [k \in {"nodegroup"} |-> G1], "ACTIVE"),
      Server(<<"b">>, WorkerName, NoMetadata, "ACTIVE"),
      Server(<<"c">>, OtherName, NoMetadata, "SHUTOFF") }

\* what the provider can find at its start: nothing, the two running instances,
\* or all three
StartingServers ==
    { {}, {s \in PreExisting : s.Status = "ACTIVE"}, PreExisting }

\* servers.Create answers with a new instance, in BUILD, under a fresh id
NewServerID == <<"s">> \o Decimal(nextID)

\* the backend admits a creation while its quota lasts
QuotaLeft == nextID <= MaxServers

\* servers.Delete finds the instance, or answers 404
Found(serverID) == \E s \in servers : s.ID = serverID

\* the backend moves an instance it is building to ACTIVE or to ERROR
BackendProgress ==
    /\ \E s \in servers, st \in {"ACTIVE", "ERROR"} :
          /\ s.Status = "BUILD"
          /\ servers' = (servers \ {s}) \cup {[s EXCEPT !.Status = st]}
    /\ disturbed' = Disturb(Nil)
    /\ UNCHANGED <<nodeGroups, heap, pmutex, nextID, catalog, now,
                   pc, req, loc, ret, calls, probe, boot>>

-----------------------------------------------------------------------------
(* Scaling operations of a node group, behind their gRPC handlers.         *)

RequestIDs == {G1, G, GX}

\* the request is taken up by an idle worker and the group looked up under the
\* directory's read lock; an unknown id is answered NotFound
Accept(w, r) ==
    /\ boot.pc = "serving"
    /\ pc[w] = "idle"
    /\ CanRLock(pmutex)
    /\ req' = [req EXCEPT ![w] = r]
    /\ loc' = [loc EXCEPT ![w] = [NoLocals EXCEPT !.ng = GetNodeGroup(r.id)]]
    /\ calls' = [calls EXCEPT ![w] = NoCalls]
    /\ disturbed' = [disturbed EXCEPT ![w] = FALSE]

\* the mutant: the capacity check is off by one
ExceedsMaxOffByOne(currentSize, delta, maxSize) == currentSize + delta > maxSize + 1

\* the mutant: the capacity check lets every request through
ExceedsMaxNever(currentSize, delta, maxSize) == FALSE

\* IncreaseSize: newSize > ng.Config.MaxSize
ExceedsMax(currentSize, delta, maxSize) == currentSize + delta > maxSize

\* the mutant: the lower bound is checked against the current size only
BelowMinIgnoresDelta(currentSize, delta, minSize) == currentSize < minSize

\* DecreaseTargetSize: newSize < ng.Config.MinSize
BelowMin(currentSize, delta, minSize) == currentSize + delta < minSize

\* NodeGroupIncreaseSize, up to IncreaseSize's check of delta
NodeGroupIncreaseSize(w) ==
    /\ \E id \in RequestIDs, delta \in (-1)..MaxDelta :
          /\ Accept(w, Request("IncreaseSize", id, delta, <<>>))
          /\ IF GetNodeGroup(id) = NilRef THEN Reply(w, "NotFound", "node group not found")
             ELSE IF delta <= 0 THEN Reply(w, "Internal", "delta must be positive")
             ELSE Goto(w, "inc_list")
    /\ UNCHANGED <<nodeGroups, heap, pmutex, servers, nextID, catalog, now, probe, boot>>

\* IncreaseSize: TargetSize() over one listing of the backend, then the capacity check
IncreaseSizeCheck(w) ==
    /\ pc[w] = "inc_list"
    /\ calls' = [calls EXCEPT ![w].list = @ + 1]
    /\ \E up \in BOOLEAN :
          IF ~up
          THEN /\ Reply(w, "Internal", "failed to get current size")
               /\ UNCHANGED loc
          ELSE LET currentSize == TargetSize(ConfigOf(w).ID, servers)
               IN  /\ loc' = [loc EXCEPT ![w].currentSize = currentSize]
                   /\ IF ExceedsMax(currentSize, req[w].delta, ConfigOf(w).MaxSize)
                      THEN Reply(w, "Internal", "cannot increase size")
                      ELSE Goto(w, "inc_create")
    /\ UNCHANGED <<nodeGroups, heap, pmutex, servers, nextID, catalog, now,
                   req, disturbed, probe, boot>>

\* the mutant: createServer sets no tag of its own
CreateMetadataWithoutTag(cfg) ==
    [k \in DOMAIN cfg.Metadata \cup {"created_by"} |->
        IF k = "created_by" THEN <<"openstack-autoscaler">> ELSE cfg.Metadata[k]]

\* the mutant: a tag the group's configured metadata carries is kept
CreateMetadataKeepsTag(cfg) ==
    [k \in DOMAIN cfg.Metadata \cup {"nodegroup", "created_by"} |->
        IF k \in DOMAIN cfg.Metadata THEN cfg.Metadata[k]
        ELSE IF k = "nodegroup" THEN cfg.ID
        ELSE <<"openstack-autoscaler">>]

\* createServer's metadata: the group's, then the tag and the creator on top
CreateMetadata(cfg) ==
    [k \in DOMAIN cfg.Metadata \cup {"nodegroup", "created_by"} |->
        IF k = "nodegroup" THEN cfg.ID
        ELSE IF k = "created_by" THEN <<"openstack-autoscaler">>
        ELSE cfg.Metadata[k]]

\* createServer's name: fmt.Sprintf("%s-%d", ng.Config.ID, time.Now().Unix())
CreateName(cfg) == cfg.ID \o <<"-">> \o Decimal(now * 60)

\* the instances the request in hand has created so far, where requests are served
\* one at a time: the last loc[w].i ids the backend gave out
CreatedBy(w) ==
    {s \in servers :
        \E k \in (nextID - loc[w].i)..(nextID - 1) : s.ID = <<"s">> \o Decimal(k)}

\* the mutant: a failed creation takes back the instances the request created
AfterFailedCreateRollsBack(listed, mine) == listed \ mine

\* IncreaseSize returns on createServer's error: the backend keeps what it has
AfterFailedCreate(listed, mine) == listed

\* the mutant: the creation loop runs on whatever delta is
MoreToCreateAlways(i, delta) == TRUE

\* IncreaseSize: for i := 0; i < delta; i++
MoreToCreate(i, delta) == i < delta

\* createServer's getFlavor, where it is reached: flavors.Get(FlavorName) fails when
\* the catalog has no flavor of that id, and the lookup by name follows
DirectLookupFails(cfg, asked) ==
    IF asked /\ (\A f \in catalog : f.ID # cfg.FlavorName) THEN 1 ELSE 0

\* IncreaseSize: one turn of the creation loop, createServer(): the image and the
\* flavor are looked up anew, then servers.Create; a createServer that failed has
\* reached its flavor lookup or stopped at the image before it
IncreaseSizeCreate(w) ==
    /\ pc[w] = "inc_create"
    /\ \E up \in BOOLEAN, asked \in BOOLEAN :
          /\ up => asked
          /\ calls' = [calls EXCEPT ![w].create = @ + 1,
                                    ![w].missed = @ + DirectLookupFails(ConfigOf(w), asked)]
          /\ IF ~up \/ ~QuotaLeft
             THEN /\ Reply(w, "Internal", "failed to create server")
                  /\ servers' = AfterFailedCreate(servers, CreatedBy(w))
                  /\ UNCHANGED <<nextID, loc, disturbed>>
             ELSE /\ servers' = servers \cup
                         {Server(NewServerID, CreateName(ConfigOf(w)),
                                 CreateMetadata(ConfigOf(w)), "BUILD")}
                  /\ nextID' = nextID + 1
                  /\ disturbed' = Disturb(w)
                  /\ loc' = [loc EXCEPT ![w].i = @ + 1]
                  /\ IF MoreToCreate(loc[w].i + 1, req[w].delta)
                     THEN Goto(w, "inc_create")
                     ELSE Reply(w, "OK", Nil)
    /\ UNCHANGED <<nodeGroups, heap, pmutex, catalog, now, req, probe, boot>>

\* NodeGroupDecreaseTargetSize, up to DecreaseTargetSize's check of delta
NodeGroupDecreaseTargetSize(w) ==
    /\ \E id \in RequestIDs, delta \in (-MaxDelta)..1 :
          /\ Accept(w, Request("DecreaseTargetSize", id, delta, <<>>))
          /\ IF GetNodeGroup(id) = NilRef THEN Reply(w, "NotFound", "node group not found")
             ELSE IF delta >= 0 THEN Reply(w, "Internal", "delta must be negative")
             ELSE Goto(w, "dec_list")
    /\ UNCHANGED <<nodeGroups, heap, pmutex, servers, nextID, catalog, now, probe, boot>>

\* the mutant: a successful decrease removes one attributed instance
AfterDecreaseDeletes(id, listed) ==
    IF getInstances(id, listed) = {} THEN listed
    ELSE listed \ {CHOOSE s \in getInstances(id, listed) : TRUE}

\* DecreaseTargetSize's effect on the backend once the check has passed: none
\* ("We don't actually delete nodes here")
AfterDecrease(id, listed) == listed

\* DecreaseTargetSize: TargetSize() over one listing, then the lower-bound check
DecreaseTargetSizeCheck(w) ==
    /\ pc[w] = "dec_list"
    /\ calls' = [calls EXCEPT ![w].list = @ + 1]
    /\ \E up \in BOOLEAN :
          IF ~up
          THEN /\ Reply(w, "Internal", "failed to get current size")
               /\ UNCHANGED <<loc, servers>>
          ELSE LET currentSize == TargetSize(ConfigOf(w).ID, servers)
               IN  /\ loc' = [loc EXCEPT ![w].currentSize = currentSize]
                   /\ IF BelowMin(currentSize, req[w].delta, ConfigOf(w).MinSize)
                      THEN /\ Reply(w, "Internal", "cannot decrease size")
                           /\ UNCHANGED servers
                      ELSE /\ Reply(w, "OK", Nil)
                           /\ servers' = AfterDecrease(ConfigOf(w).ID, servers)
    /\ UNCHANGED <<nodeGroups, heap, pmutex, nextID, catalog, now,
                   req, disturbed, probe, boot>>

\* node.Spec.ProviderID of a node backed by the instance with this id
ProviderID(serverID) == ProviderPrefix \o serverID

\* the provider ids a DeleteNodes request may carry: two well-formed ones, a bare
\* backend id and an id of another provider
NodePool ==
    { ProviderID(<<"a">>), ProviderID(<<"s","1">>), <<"b">>,
      <<"a","w","s",":","/","/","b">> }

NodeLists == UNION {[1..n -> NodePool] : n \in 0..MaxNodes}

\* the mutant: a provider id counts as malformed only when it is empty
MalformedOnlyIfEmpty(providerID) == providerID = <<>>

\* deleteNode: serverID == providerID after TrimPrefix, the prefix is missing
Malformed(providerID) == TrimPrefix(providerID, ProviderPrefix) = providerID

\* the mutant: a delete the backend accepted leaves the instance where it is
AfterDeleteKeeps(listed, serverID) == listed

\* servers.Delete, accepted: the instance is gone from the backend
AfterDelete(listed, serverID) == {s \in listed : s.ID # serverID}

\* NodeGroupDeleteNodes, up to DeleteNodes' check for an empty list
NodeGroupDeleteNodes(w) ==
    /\ \E id \in RequestIDs, nodes \in NodeLists :
          /\ Accept(w, Request("DeleteNodes", id, 0, nodes))
          /\ IF GetNodeGroup(id) = NilRef THEN Reply(w, "NotFound", "node group not found")
             ELSE IF Len(nodes) = 0 THEN Reply(w, "OK", Nil)
             ELSE Goto(w, "del_loop")
    /\ UNCHANGED <<nodeGroups, heap, pmutex, servers, nextID, catalog, now, probe, boot>>

\* the mutant: deleteNode refuses an instance its group does not attribute
DeleteNodeOwnOnly(w) ==
    /\ pc[w] = "del_loop"
    /\ LET providerID == req[w].nodes[loc[w].i + 1]
           serverID   == TrimPrefix(providerID, ProviderPrefix)
       IN  IF Malformed(providerID)
           THEN /\ Reply(w, "Internal", "invalid provider ID format")
                /\ UNCHANGED <<servers, loc, calls, disturbed>>
           ELSE IF \A s \in getInstances(ConfigOf(w).ID, servers) : s.ID # serverID
           THEN /\ Reply(w, "Internal", "node is not of this group")
                /\ UNCHANGED <<servers, loc, calls, disturbed>>
           ELSE /\ calls' = [calls EXCEPT ![w].delete = @ + 1]
                /\ servers' = AfterDelete(servers, serverID)
                /\ disturbed' = Disturb(w)
                /\ loc' = [loc EXCEPT ![w].i = @ + 1]
                /\ IF loc[w].i + 1 < Len(req[w].nodes)
                   THEN Goto(w, "del_loop")
                   ELSE Reply(w, "OK", Nil)
    /\ UNCHANGED <<nodeGroups, heap, pmutex, nextID, catalog, now, req, probe, boot>>

\* DeleteNodes: one turn of the loop, deleteNode(node)
DeleteNode(w) ==
    /\ pc[w] = "del_loop"
    /\ LET providerID == req[w].nodes[loc[w].i + 1]
           serverID   == TrimPrefix(providerID, ProviderPrefix)
       IN  IF Malformed(providerID)
           THEN /\ Reply(w, "Internal", "invalid provider ID format")
                /\ UNCHANGED <<servers, loc, calls, disturbed>>
           ELSE /\ calls' = [calls EXCEPT ![w].delete = @ + 1]
                /\ \E up \in BOOLEAN :
                      IF ~up \/ ~Found(serverID)
                      THEN /\ Reply(w, "Internal", "failed to delete server")
                           /\ UNCHANGED <<servers, loc, disturbed>>
                      ELSE /\ servers' = AfterDelete(servers, serverID)
                           /\ disturbed' = Disturb(w)
                           /\ loc' = [loc EXCEPT ![w].i = @ + 1]
                           /\ IF loc[w].i + 1 < Len(req[w].nodes)
                              THEN Goto(w, "del_loop")
                              ELSE Reply(w, "OK", Nil)
    /\ UNCHANGED <<nodeGroups, heap, pmutex, nextID, catalog, now, req, probe, boot>>

\* the response leaves and the worker is free for the next request
Return(w) ==
    /\ pc[w] = "done"
    /\ pc' = [pc EXCEPT ![w] = "idle"]
    /\ req' = [req EXCEPT ![w] = NoRequest]
    /\ loc' = [loc EXCEPT ![w] = NoLocals]
    /\ ret' = [ret EXCEPT ![w] = NoReply]
    /\ calls' = [calls EXCEPT ![w] = NoCalls]
    /\ disturbed' = [disturbed EXCEPT ![w] = FALSE]
    /\ UNCHANGED <<nodeGroups, heap, pmutex, servers, nextID, catalog, now, probe, boot>>

-----------------------------------------------------------------------------
(* Spec: the scaling operations of the groups of a populated directory,    *)
(* over a backend that has instances of its own; RaceSpec puts two         *)
(* IncreaseSize requests in flight at once.                                *)

FlavorSmall == [ID |-> "f1", Name |-> "m1.small", VCPUs |-> 2, RAM |-> 512]

\* directories AddNodeGroup can have built by the time scaling requests arrive
Directories ==
    { <<Config(G1, 1, 5, "m1.small", "ubuntu", "", NoMetadata)>>,
      <<Config(G1, 2, 3, "m1.small", "ubuntu", "", [k \in {"nodegroup"} |-> G]),
        Config(G, 0, 1, "m1.small", "", "img-1", NoMetadata)>> }

\* func main has validated the configuration and called grpcServer.Serve
Booted == [pc |-> "serving", validated |-> TRUE]

WorkersIdle ==
    /\ pc = [w \in Workers |-> "idle"]
    /\ req = [w \in Workers |-> NoRequest]
    /\ loc = [w \in Workers |-> NoLocals]
    /\ ret = [w \in Workers |-> NoReply]
    /\ calls = [w \in Workers |-> NoCalls]
    /\ disturbed = [w \in Workers |-> FALSE]

NoProbe == [server |-> Server(<<>>, <<>>, NoMetadata, ""), id |-> <<>>,
            asked |-> FALSE, answer |-> FALSE]

Init ==
    /\ \E dir \in Directories :
          /\ heap = [i \in 1..Len(dir) |-> NewOpenStackNodeGroup(dir[i])]
          /\ nodeGroups = [id \in {dir[i].ID : i \in 1..Len(dir)} |->
                              CHOOSE i \in 1..Len(dir) : dir[i].ID = id]
    /\ pmutex = FreeMutex
    /\ servers \in StartingServers
    /\ nextID = 1
    /\ catalog = {FlavorSmall}
    /\ now = 0
    /\ WorkersIdle
    /\ boot = Booted
    /\ probe = NoProbe

\* Spec takes the requests one at a time: a single worker serves them, and
\* only the backend itself acts between the steps of a request
Serial == {"w1"}

Next ==
    \/ \E w \in Serial : NodeGroupIncreaseSize(w)
    \/ \E w \in Serial : IncreaseSizeCheck(w)
    \/ \E w \in Serial : IncreaseSizeCreate(w)
    \/ \E w \in Serial : NodeGroupDecreaseTargetSize(w)
    \/ \E w \in Serial : DecreaseTargetSizeCheck(w)
    \/ \E w \in Serial : NodeGroupDeleteNodes(w)
    \/ \E w \in Serial : DeleteNode(w)
    \/ \E w \in Serial : Return(w)
    \/ BackendProgress

Spec == Init /\ [][Next]_vars

-----------------------------------------------------------------------------
(* RaceSpec: IncreaseSize requests handled concurrently, each on its own   *)
(* worker, interleaved at the granularity of the backend calls.            *)

RaceNext ==
    \/ \E w \in Workers : NodeGroupIncreaseSize(w)
    \/ \E w \in Workers : IncreaseSizeCheck(w)
    \/ \E w \in Workers : IncreaseSizeCreate(w)
    \/ \E w \in Workers : Return(w)
    \/ BackendProgress

RaceSpec == Init /\ [][RaceNext]_vars

-----------------------------------------------------------------------------
(* Claims about the scaling operations.                                    *)

Finished(w, op) == pc[w] = "done" /\ req[w].op = op /\ loc[w].ng # NilRef

Succeeded(w, op) == Finished(w, op) /\ ret[w].code = "OK"

\* CurrentTargetSize() of the group worker w's request addresses, on the backend as it is
CurrentTargetSize(w) == TargetSize(ConfigOf(w).ID, servers)

\* C1 as stated: after a successful IncreaseSize or DecreaseTargetSize, handled with
\* no other change to the backend, minSize <= CurrentTargetSize() <= maxSize
C1_BoundsAfterScaling ==
    \A w \in Workers :
        (Succeeded(w, "IncreaseSize") \/ Succeeded(w, "DecreaseTargetSize")) /\ ~disturbed[w]
        => /\ ConfigOf(w).MinSize <= CurrentTargetSize(w)
           /\ CurrentTargetSize(w) <= ConfigOf(w).MaxSize

\* C1 as amended: after a successful IncreaseSize, handled with no other change to the
\* backend, CurrentTargetSize() <= maxSize; after a successful DecreaseTargetSize,
\* minSize <= CurrentTargetSize()
C1_EachBoundAfterItsOperation ==
    \A w \in Workers :
        ~disturbed[w] =>
            /\ Succeeded(w, "IncreaseSize") => CurrentTargetSize(w) <= ConfigOf(w).MaxSize
            /\ Succeeded(w, "DecreaseTargetSize") => ConfigOf(w).MinSize <= CurrentTargetSize(w)

\* an IncreaseSize of MaxDelta instances that filled its group exactly to maxSize
C1_Witness ==
    \E w \in Workers :
        /\ Succeeded(w, "IncreaseSize") /\ ~disturbed[w]
        /\ CurrentTargetSize(w) = ConfigOf(w).MaxSize
        /\ req[w].delta = MaxDelta

\* C2: the step in which IncreaseSize(delta), delta > 0, reads a target size with
\* current + delta > maxSize ends the request in failure, with no creation call
\* issued and the backend's instance set as it was
C2_OverMaxRejectedWithoutCreate ==
    [][\A w \in Workers :
          /\ pc[w] = "inc_list" /\ pc'[w] # "inc_list"
          /\ CurrentTargetSize(w) + req[w].delta > ConfigOf(w).MaxSize
          => /\ pc'[w] = "done" /\ ret'[w].code # "OK"
             /\ calls'[w].create = 0
             /\ servers' = servers]_vars

\* the group of min 1, max 5 stands at 4: IncreaseSize(2) is rejected, nothing created
C2_Witness ==
    \E w \in Workers :
        /\ Finished(w, "IncreaseSize") /\ ret[w].err = "cannot increase size"
        /\ ConfigOf(w).MinSize = 1 /\ ConfigOf(w).MaxSize = 5
        /\ req[w].delta = 2 /\ loc[w].currentSize = 4
        /\ calls[w].create = 0 /\ CurrentTargetSize(w) = 4

\* C3: no instance IncreaseSize created stands in a group whose ACTIVE/BUILD count
\* exceeds maxSize, however the IncreaseSize requests interleave
C3_NeverAboveMax ==
    \A ref \in DOMAIN heap :
        LET cfg == heap[ref].Config
            mine == {s \in getInstances(cfg.ID, servers) :
                        /\ "created_by" \in DOMAIN s.Metadata
                        /\ s.Status \in {"ACTIVE", "BUILD"}}
        IN  mine # {} => TargetSize(cfg.ID, servers) <= cfg.MaxSize

\* C4: a DecreaseTargetSize(delta) with delta >= 0 is rejected on arrival; with
\* delta < 0 and the listing answered, the step that reads the target size succeeds
\* exactly when current + delta >= minSize
C4_DecreaseAcceptedIffNotBelowMin ==
    [][\A w \in Workers :
          /\ pc[w] = "idle" /\ req'[w].op = "DecreaseTargetSize" /\ req'[w].delta >= 0
             => pc'[w] = "done" /\ ret'[w].code # "OK"
          /\ /\ pc[w] = "dec_list" /\ pc'[w] # "dec_list"
             /\ ret'[w].err # "failed to get current size"
             => /\ pc'[w] = "done"
                /\ ret'[w].code = "OK" <=>
                      CurrentTargetSize(w) + req[w].delta >= ConfigOf(w).MinSize]_vars

\* a DecreaseTargetSize(-1) accepted with the group one above minSize
C4_Witness ==
    \E w \in Workers :
        /\ Succeeded(w, "DecreaseTargetSize") /\ req[w].delta = -1
        /\ CurrentTargetSize(w) = ConfigOf(w).MinSize + 1

\* C5: no step of a DecreaseTargetSize request, whatever its outcome, issues a create
\* or delete call or changes the backend's instance set
C5_DecreaseLeavesBackendAlone ==
    [][\A w \in Workers :
          /\ pc'[w] # pc[w]
          /\ \/ pc[w] = "dec_list"
             \/ pc[w] = "idle" /\ req'[w].op = "DecreaseTargetSize"
          => /\ servers' = servers
             /\ calls'[w].create = 0 /\ calls'[w].delete = 0]_vars

\* a DecreaseTargetSize that succeeded on a group that holds instances
C5_Witness ==
    \E w \in Workers :
        /\ Succeeded(w, "DecreaseTargetSize")
        /\ CurrentTargetSize(w) = 2 /\ req[w].delta = -2

\* the provider id carries no "openstack://" in front
LacksPrefix(providerID) == ~HasPrefix(providerID, ProviderPrefix)

\* the place of the first reference of the list that lacks the prefix
FirstMalformed(nodes) ==
    CHOOSE k \in 1..Len(nodes) :
        /\ LacksPrefix(nodes[k])
        /\ \A j \in 1..(k - 1) : ~LacksPrefix(nodes[j])

HasMalformed(nodes) == \E k \in 1..Len(nodes) : LacksPrefix(nodes[k])

\* C8 as stated: a DeleteNodes whose list holds a reference without the prefix fails
\* and issues no backend delete call at all
C8_MalformedAnywhereNoDelete ==
    \A w \in Workers :
        /\ req[w].op = "DeleteNodes" /\ loc[w].ng # NilRef
        /\ HasMalformed(req[w].nodes)
        => /\ calls[w].delete = 0
           /\ pc[w] = "done" => ret[w].code # "OK"

\* C8 as amended: such a DeleteNodes fails, and it issues no backend delete call for
\* the first reference without the prefix nor for any reference after it (delete
\* calls go out only for the references before it)
C8_NoDeleteFromFirstMalformed ==
    \A w \in Workers :
        /\ req[w].op = "DeleteNodes" /\ loc[w].ng # NilRef
        /\ HasMalformed(req[w].nodes)
        => /\ calls[w].delete < FirstMalformed(req[w].nodes)
           /\ loc[w].i < FirstMalformed(req[w].nodes)
           /\ pc[w] = "done" => ret[w].code # "OK"

\* a DeleteNodes that failed on its second, malformed reference after deleting the first
C8_Witness ==
    \E w \in Workers :
        /\ Finished(w, "DeleteNodes") /\ ret[w].err = "invalid provider ID format"
        /\ FirstMalformed(req[w].nodes) = 2
        /\ calls[w].delete = 1 /\ loc[w].i = 1

\* C9: a successful IncreaseSize(delta) has issued exactly delta creation calls and,
\* when nothing else changed the backend, CurrentTargetSize() stands delta above
\* the size the request read
C9_IncreaseAddsDelta ==
    \A w \in Workers :
        Succeeded(w, "IncreaseSize") =>
            /\ calls[w].create = req[w].delta
            /\ ~disturbed[w] => CurrentTargetSize(w) = loc[w].currentSize + req[w].delta

\* the group of min 1, max 5 with 2 active instances: IncreaseSize(2) gives 4
C9_Witness ==
    \E w \in Workers :
        /\ Succeeded(w, "IncreaseSize") /\ ~disturbed[w]
        /\ ConfigOf(w).MinSize = 1 /\ ConfigOf(w).MaxSize = 5
        /\ req[w].delta = 2 /\ loc[w].currentSize = 2
        /\ calls[w].create = 2 /\ CurrentTargetSize(w) = 4

-----------------------------------------------------------------------------
(* AttrSpec: ContainsNode put to instances of every shape of name and tag. *)

ProbeNames == {RandomName, WorkerName, OtherName, <<"g">>, <<"1","g">>, <<>>}

ProbeIDs == {G1, G, GX, <<"g","1","-">>}

\* instance metadata: untagged, tagged (also with an empty tag), or other keys only
ProbeMetadata ==
    {NoMetadata, [k \in {"created_by"} |-> <<"x">>]}
        \cup {[k \in {"nodegroup"} |-> tag] : tag \in ProbeIDs \cup {<<>>}}

AttrInit ==
    /\ nodeGroups = <<>>
    /\ heap = <<>>
    /\ pmutex = FreeMutex
    /\ servers = {}
    /\ nextID = 1
    /\ catalog = {FlavorSmall}
    /\ now = 0
    /\ WorkersIdle
    /\ boot = Booted
    /\ \E name \in ProbeNames, md \in ProbeMetadata, id \in ProbeIDs :
          probe = [server |-> Server(<<"p">>, name, md, "ACTIVE"), id |-> id,
                   asked |-> FALSE, answer |-> FALSE]

\* the group with this id is asked whether the instance is its own
Attribute ==
    /\ ~probe.asked
    /\ probe' = [probe EXCEPT !.asked = TRUE,
                              !.answer = ContainsNode(probe.id, probe.server)]
    /\ UNCHANGED <<nodeGroups, heap, pmutex, servers, nextID, catalog, now,
                   pc, req, loc, ret, calls, disturbed, boot>>

AttrNext == Attribute

AttrSpec == AttrInit /\ [][AttrNext]_vars

\* sub occurs in s: some run of consecutive characters of s spells sub
OccursIn(sub, s) ==
    \E k \in 1..(Len(s) + 1) :
        \A j \in 1..Len(sub) : k + j - 1 <= Len(s) /\ s[k + j - 1] = sub[j]

\* C10: a tagged instance belongs to the group exactly when its tag is the group's
\* id, whatever its name; an untagged one exactly when the id occurs in its name
C10_Attribution ==
    probe.asked =>
        LET s == probe.server
        IN  /\ "nodegroup" \in DOMAIN s.Metadata
               => (probe.answer <=> s.Metadata["nodegroup"] = probe.id)
            /\ "nodegroup" \notin DOMAIN s.Metadata
               => (probe.answer <=> OccursIn(probe.id, s.Name))
            /\ s.Name = RandomName /\ s.Metadata = [k \in {"nodegroup"} |-> G1]
               => (probe.answer <=> probe.id = G1)
            /\ s.Name = WorkerName /\ s.Metadata = NoMetadata /\ probe.id = G1
               => probe.answer
            /\ s.Name = OtherName /\ s.Metadata = NoMetadata
               => ~probe.answer

\* the instance named g1-worker-07 tagged for group g: g1 is told it is not its own
C10_Witness ==
    /\ probe.asked /\ ~probe.answer
    /\ probe.id = G1
    /\ probe.server.Name = WorkerName
    /\ probe.server.Metadata = [k \in {"nodegroup"} |-> G]

-----------------------------------------------------------------------------
(* DirSpec: the provider's directory from its construction on, groups      *)
(* added and looked up by two workers at once.                             *)

\* the mutant: the sizes of the configuration are not looked at
validateConfigWithoutSizes(cfg) ==
    IF cfg.ID = <<>> THEN "node group ID is required"
    ELSE IF cfg.FlavorName = "" THEN "flavorName is required"
    ELSE IF cfg.ImageName = "" /\ cfg.ImageID = "" THEN "either imageName or imageId is required"
    ELSE Nil

\* validateConfig: the first complaint about the configuration, Nil when it has none
validateConfig(cfg) ==
    IF cfg.ID = <<>> THEN "node group ID is required"
    ELSE IF cfg.MinSize < 0 THEN "minSize cannot be negative"
    ELSE IF cfg.MaxSize < cfg.MinSize THEN "maxSize must be >= minSize"
    ELSE IF cfg.FlavorName = "" THEN "flavorName is required"
    ELSE IF cfg.ImageName = "" /\ cfg.ImageID = "" THEN "either imageName or imageId is required"
    ELSE Nil

\* the configurations callers hand to AddNodeGroup: two for g1, one for g, and one
\* for each complaint of validateConfig
AddConfigs ==
    { Config(G1, 1, 5, "m1.small", "ubuntu", "", NoMetadata),
      Config(G1, 0, 2, "m1.large", "", "img-1", NoMetadata),
      Config(G, 0, 1, "m1.small", "", "img-1", NoMetadata),
      Config(<<>>, 0, 1, "m1.small", "ubuntu", "", NoMetadata),
      Config(GX, -1, 1, "m1.small", "ubuntu", "", NoMetadata),
      Config(GX, 2, 1, "m1.small", "ubuntu", "", NoMetadata),
      Config(GX, 0, 1, "", "ubuntu", "", NoMetadata),
      Config(GX, 0, 1, "m1.small", "", "", NoMetadata) }

\* the mutant: the directory is not consulted before the group is created
AlreadyExistsNever(id, dir) == FALSE

\* AddNodeGroup: _, exists := p.nodeGroups[ngConfig.ID]
AlreadyExists(id, dir) == id \in DOMAIN dir

\* the mutant: the new entry takes the place of the directory
BindAfresh(dir, id, ref) == [i \in {id} |-> ref]

\* p.nodeGroups[id] = ref
Bind(dir, id, ref) == [i \in DOMAIN dir \cup {id} |-> IF i = id THEN ref ELSE dir[i]]

\* AddNodeGroup is called and takes the directory's write lock
AddNodeGroupLock(w) ==
    /\ pc[w] = "idle"
    /\ CanLock(pmutex)
    /\ pmutex' = [pmutex EXCEPT !.w = w]
    /\ \E cfg \in AddConfigs :
          req' = [req EXCEPT ![w] = [Request("AddNodeGroup", cfg.ID, 0, <<>>)
                                        EXCEPT !.cfg = cfg]]
    /\ loc' = [loc EXCEPT ![w] = NoLocals]
    /\ calls' = [calls EXCEPT ![w] = NoCalls]
    /\ Goto(w, "add_body")
    /\ UNCHANGED <<nodeGroups, heap, servers, nextID, catalog, now, disturbed, probe,
                   boot>>

\* AddNodeGroup under the lock: the existing group, or a validated new one; the
\* deferred Unlock on the way out
AddNodeGroupBody(w) ==
    /\ pc[w] = "add_body"
    /\ pmutex' = [pmutex EXCEPT !.w = Nil]
    /\ LET cfg == req[w].cfg
       IN  IF AlreadyExists(cfg.ID, nodeGroups)
           THEN /\ pc' = [pc EXCEPT ![w] = "done"]
                /\ ret' = [ret EXCEPT ![w] =
                              [NoReply EXCEPT !.code = "OK", !.ng = nodeGroups[cfg.ID]]]
                /\ UNCHANGED <<nodeGroups, heap>>
           ELSE IF validateConfig(cfg) # Nil
           THEN /\ Reply(w, "Error", validateConfig(cfg))
                /\ UNCHANGED <<nodeGroups, heap>>
           ELSE /\ heap' = Append(heap, NewOpenStackNodeGroup(cfg))
                /\ nodeGroups' = Bind(nodeGroups, cfg.ID, Len(heap) + 1)
                /\ pc' = [pc EXCEPT ![w] = "done"]
                /\ ret' = [ret EXCEPT ![w] =
                              [NoReply EXCEPT !.code = "OK", !.ng = Len(heap) + 1]]
    /\ UNCHANGED <<servers, nextID, catalog, now, req, loc, calls, disturbed, probe,
                   boot>>

\* GetNodeGroup, called on its own: the lookup under the read lock
GetNodeGroupCall(w) ==
    /\ pc[w] = "idle"
    /\ CanRLock(pmutex)
    /\ \E id \in RequestIDs :
          /\ req' = [req EXCEPT ![w] = Request("GetNodeGroup", id, 0, <<>>)]
          /\ ret' = [ret EXCEPT ![w] =
                        [NoReply EXCEPT !.code = "OK", !.ng = GetNodeGroup(id)]]
    /\ pc' = [pc EXCEPT ![w] = "done"]
    /\ loc' = [loc EXCEPT ![w] = NoLocals]
    /\ calls' = [calls EXCEPT ![w] = NoCalls]
    /\ UNCHANGED <<nodeGroups, heap, pmutex, servers, nextID, catalog, now,
                   disturbed, probe, boot>>

\* NewOpenStackProvider: an empty directory
DirInit ==
    /\ nodeGroups = <<>>
    /\ heap = <<>>
    /\ pmutex = FreeMutex
    /\ servers = {}
    /\ nextID = 1
    /\ catalog = {FlavorSmall}
    /\ now = 0
    /\ WorkersIdle
    /\ boot = Booted
    /\ probe = NoProbe

DirNext ==
    \/ \E w \in Workers : AddNodeGroupLock(w)
    \/ \E w \in Workers : AddNodeGroupBody(w)
    \/ \E w \in Workers : GetNodeGroupCall(w)
    \/ \E w \in Workers : Return(w)

DirSpec == DirInit /\ [][DirNext]_vars

Added(w) == pc[w] = "done" /\ req[w].op = "AddNodeGroup" /\ ret[w].code = "OK"

\* C6: every id of the directory has exactly one group object, the one the directory
\* holds for it; every successful AddNodeGroup returns that object, so two calls for
\* one id return the same object, whatever configuration the later one brings
C6_OneGroupPerID ==
    /\ \A id \in DOMAIN nodeGroups :
          {ref \in DOMAIN heap : heap[ref].Config.ID = id} = {nodeGroups[id]}
    /\ \A w \in Workers :
          Added(w) => /\ req[w].id \in DOMAIN nodeGroups
                      /\ ret[w].ng = nodeGroups[req[w].id]
    /\ \A w, v \in Workers :
          Added(w) /\ Added(v) /\ req[w].id = req[v].id => ret[w].ng = ret[v].ng

\* two workers added g1 with different configurations: both hold the same object,
\* and it carries the configuration of one of them only
C6_Witness ==
    \E w, v \in Workers :
        /\ w # v /\ Added(w) /\ Added(v)
        /\ req[w].id = G1 /\ req[v].id = G1 /\ req[w].cfg # req[v].cfg
        /\ ret[w].ng = ret[v].ng
        /\ heap[ret[w].ng].Config = req[w].cfg
        /\ Cardinality({ref \in DOMAIN heap : heap[ref].Config.ID = G1}) = 1

-----------------------------------------------------------------------------
(* TplSpec: the template cache of each group, under a clock, a flavor      *)
(* catalog that changes, and Refresh.                                      *)

\* the freshness window of the cached template, in minutes (10*time.Minute)
TemplateTTL == 10

\* time.Since; the zero time is further back than any window
Since(t) == IF t = ZeroTime THEN now + TemplateTTL ELSE now - t

\* the mutant: a cached template is served whatever its age
CacheFreshWhateverAge(ng) == ng.templateNodeInfo # NoTemplate

\* TemplateNodeInfo: ng.templateNodeInfo != nil && time.Since(ng.lastRefresh) < 10*time.Minute
CacheFresh(ng) == ng.templateNodeInfo # NoTemplate /\ Since(ng.lastRefresh) < TemplateTTL

\* the flavor m1.small, and the same flavor after the operator resized it
FlavorSmallResized == [ID |-> "f1", Name |-> "m1.small", VCPUs |-> 4, RAM |-> 1024]
Catalogs == { {FlavorSmall}, {FlavorSmallResized}, {} }

\* getFlavor: flavors.Get takes the configured name for an id; when that fails,
\* the flavors listed under that name.  The empty set: flavor not found
getFlavor(cfg, listed) ==
    LET byID == {f \in listed : f.ID = cfg.FlavorName}
    IN  IF byID # {} THEN byID ELSE {f \in listed : f.Name = cfg.FlavorName}

TemplateSuffix == <<"-","t","e","m","p","l","a","t","e">>
TemplatePrefix == <<"t","e","m","p","l","a","t","e","-">>

\* buildTemplateNodeInfo: the node made of the configuration and the flavor found
buildTemplateNodeInfo(cfg, flavor) ==
    LET fixed == [k \in {"kubernetes.io/arch", "kubernetes.io/os",
                         "node.kubernetes.io/instance-type"} |->
                     IF k = "kubernetes.io/arch" THEN "amd64"
                     ELSE IF k = "kubernetes.io/os" THEN "linux"
                     ELSE flavor.Name]
        capacity == [cpu |-> flavor.VCPUs, memory |-> flavor.RAM * 1024 * 1024]
    IN  [Name        |-> cfg.ID \o TemplateSuffix,
         Labels      |-> [k \in DOMAIN fixed \cup DOMAIN cfg.Labels |->
                             IF k \in DOMAIN cfg.Labels THEN cfg.Labels[k] ELSE fixed[k]],
         ProviderID  |-> ProviderPrefix \o TemplatePrefix \o cfg.ID,
         Capacity    |-> capacity,
         Allocatable |-> capacity,
         Ready       |-> TRUE]

\* (*apiv1.Node).DeepCopy: the same data in a new object
DeepCopy(node) == node

\* the mutant: the caller is handed the object it asked a copy of
DeepCopyObjectShared(obj) == obj

\* DeepCopy allocates: whichever object is copied ("cached": the one the group's
\* cache points to), the one handed out is a new one that only the caller holds
DeepCopyObject(obj) == "copy"

\* NodeGroupTemplateNodeInfo, up to the call of TemplateNodeInfo
NodeGroupTemplateNodeInfo(w) ==
    /\ \E id \in RequestIDs :
          /\ Accept(w, Request("TemplateNodeInfo", id, 0, <<>>))
          /\ IF GetNodeGroup(id) = NilRef THEN Reply(w, "NotFound", "node group not found")
             ELSE Goto(w, "tpl_lock")
    /\ UNCHANGED <<nodeGroups, heap, pmutex, servers, nextID, catalog, now, probe, boot>>

\* TemplateNodeInfo takes the group's lock: a fresh cache is copied out and the
\* lock released; otherwise the lock is kept for the build
TemplateNodeInfoLock(w) ==
    /\ pc[w] = "tpl_lock"
    /\ LET ref == loc[w].ng
       IN  /\ CanLock(heap[ref].mutex)
           /\ IF CacheFresh(heap[ref])
              THEN /\ pc' = [pc EXCEPT ![w] = "done"]
                   /\ ret' = [ret EXCEPT ![w] =
                                 [NoReply EXCEPT !.code = "OK",
                                                 !.node = DeepCopy(heap[ref].templateNodeInfo),
                                                 !.obj = DeepCopyObject("cached")]]
                   /\ UNCHANGED heap
              ELSE /\ heap' = [heap EXCEPT ![ref].mutex.w = w]
                   /\ Goto(w, "tpl_build")
    /\ UNCHANGED <<nodeGroups, pmutex, servers, nextID, catalog, now,
                   req, loc, calls, disturbed, probe, boot>>

\* the mutant: a failed build is remembered, the cache is stamped all the same
TemplateNodeInfoBuildStampsFailure(w) ==
    /\ pc[w] = "tpl_build"
    /\ calls' = [calls EXCEPT ![w].flavor = @ + 1]
    /\ \E up \in BOOLEAN :
          LET ref   == loc[w].ng
              found == IF up THEN getFlavor(heap[ref].Config, catalog) ELSE {}
          IN  IF found = {}
              THEN /\ heap' = [heap EXCEPT ![ref].mutex.w = Nil, ![ref].lastRefresh = now]
                   /\ Reply(w, "Internal", "failed to build template node info")
              ELSE \E flavor \in found :
                      LET node == buildTemplateNodeInfo(heap[ref].Config, flavor)
                      IN  /\ heap' = [heap EXCEPT ![ref].mutex.w = Nil,
                                                  ![ref].templateNodeInfo = node,
                                                  ![ref].lastRefresh = now]
                          /\ pc' = [pc EXCEPT ![w] = "done"]
                          /\ ret' = [ret EXCEPT ![w] =
                                        [NoReply EXCEPT !.code = "OK", !.node = DeepCopy(node),
                                                        !.obj = DeepCopyObject("cached")]]
    /\ UNCHANGED <<nodeGroups, pmutex, servers, nextID, catalog, now,
                   req, loc, disturbed, probe, boot>>

\* TemplateNodeInfo under the lock: the flavor is looked up; a failure leaves the
\* cache as it was, a node built is cached, stamped and copied out
TemplateNodeInfoBuild(w) ==
    /\ pc[w] = "tpl_build"
    /\ calls' = [calls EXCEPT ![w].flavor = @ + 1]
    /\ \E up \in BOOLEAN :
          LET ref   == loc[w].ng
              found == IF up THEN getFlavor(heap[ref].Config, catalog) ELSE {}
          IN  IF found = {}
              THEN /\ heap' = [heap EXCEPT ![ref].mutex.w = Nil]
                   /\ Reply(w, "Internal", "failed to build template node info")
              ELSE \E flavor \in found :
                      LET node == buildTemplateNodeInfo(heap[ref].Config, flavor)
                      IN  /\ heap' = [heap EXCEPT ![ref].mutex.w = Nil,
                                                  ![ref].templateNodeInfo = node,
                                                  ![ref].lastRefresh = now]
                          /\ pc' = [pc EXCEPT ![w] = "done"]
                          /\ ret' = [ret EXCEPT ![w] =
                                        [NoReply EXCEPT !.code = "OK", !.node = DeepCopy(node),
                                                        !.obj = DeepCopyObject("cached")]]
    /\ UNCHANGED <<nodeGroups, pmutex, servers, nextID, catalog, now,
                   req, loc, disturbed, probe, boot>>

\* the mutant: the group's Refresh leaves the cached template where it is
NodeGroupRefreshKeepsCache(ng) == ng

\* the group's Refresh: the cached template and its stamp are set to their zero values
NodeGroupRefresh(ng) ==
    [ng EXCEPT !.templateNodeInfo = NoTemplate, !.lastRefresh = ZeroTime]

\* the mutant: the provider's Refresh stops after the first group
ProviderRefreshFirstOnly(groups) ==
    [ref \in DOMAIN groups |-> IF ref = 1 THEN NodeGroupRefresh(groups[ref]) ELSE groups[ref]]

\* the provider's Refresh: the loop over p.nodeGroups, which no group's Refresh ends
\* early, its error being logged only
ProviderRefresh(groups) == [ref \in DOMAIN groups |-> NodeGroupRefresh(groups[ref])]

\* the groups whose cache holds a template that would still be served
FreshCaches == {ref \in DOMAIN heap : CacheFresh(heap[ref])}

\* Refresh: under the directory's read lock, every group's cache is cleared
\* under the group's lock
Refresh(w) ==
    /\ boot.pc = "serving"
    /\ pc[w] = "idle"
    /\ CanRLock(pmutex)
    /\ \A ref \in DOMAIN heap : CanLock(heap[ref].mutex)
    /\ heap' = ProviderRefresh(heap)
    /\ req' = [req EXCEPT ![w] = Request("Refresh", <<>>, 0, <<>>)]
    /\ loc' = [loc EXCEPT ![w] = NoLocals]
    /\ calls' = [calls EXCEPT ![w] = [NoCalls EXCEPT !.dropped = FreshCaches]]
    /\ Reply(w, "OK", Nil)
    /\ UNCHANGED <<nodeGroups, pmutex, servers, nextID, catalog, now, disturbed, probe,
                   boot>>

\* a minute passes
Tick ==
    /\ now < MaxTime
    /\ now' = now + 1
    /\ UNCHANGED <<nodeGroups, heap, pmutex, servers, nextID, catalog,
                   pc, req, loc, ret, calls, disturbed, probe, boot>>

\* the operator resizes, removes or restores the flavor
CatalogChange ==
    /\ catalog' \in Catalogs \ {catalog}
    /\ UNCHANGED <<nodeGroups, heap, pmutex, servers, nextID, now,
                   pc, req, loc, ret, calls, disturbed, probe, boot>>

\* directories whose groups name their flavor by name, or by id, one with labels
TplDirectories ==
    { <<[Config(G1, 1, 5, "m1.small", "ubuntu", "", NoMetadata)
            EXCEPT !.Labels = [k \in {"pool", "kubernetes.io/os"} |-> "blue"]]>>,
      <<Config(G1, 2, 3, "m1.small", "ubuntu", "", NoMetadata),
        Config(G, 0, 1, "f1", "", "img-1", NoMetadata)>> }

TplInit ==
    /\ \E dir \in TplDirectories :
          /\ heap = [i \in 1..Len(dir) |-> NewOpenStackNodeGroup(dir[i])]
          /\ nodeGroups = [id \in {dir[i].ID : i \in 1..Len(dir)} |->
                              CHOOSE i \in 1..Len(dir) : dir[i].ID = id]
    /\ pmutex = FreeMutex
    /\ servers = {}
    /\ nextID = 1
    /\ catalog \in Catalogs
    /\ now = 0
    /\ WorkersIdle
    /\ boot = Booted
    /\ probe = NoProbe

TplNext ==
    \/ \E w \in Serial : NodeGroupTemplateNodeInfo(w)
    \/ \E w \in Serial : TemplateNodeInfoLock(w)
    \/ \E w \in Serial : TemplateNodeInfoBuild(w)
    \/ \E w \in Serial : Refresh(w)
    \/ \E w \in Serial : Return(w)
    \/ Tick
    \/ CatalogChange

TplSpec == TplInit /\ [][TplNext]_vars

\* the group's cache holds a template stamped less than the window ago
InWindow(ref) ==
    /\ heap[ref].templateNodeInfo # NoTemplate
    /\ heap[ref].lastRefresh # ZeroTime
    /\ now - heap[ref].lastRefresh < TemplateTTL

\* the group's cache holds a template whose window has run out
Expired(ref) ==
    /\ heap[ref].templateNodeInfo # NoTemplate
    /\ heap[ref].lastRefresh # ZeroTime
    /\ now - heap[ref].lastRefresh >= TemplateTTL

\* worker w's call of TemplateNodeInfo ends with this step
EndsTemplateCall(w) ==
    /\ pc[w] \in {"tpl_lock", "tpl_build"}
    /\ pc'[w] = "done"

\* C7 as stated: every call made after the window has run out stamps the cache anew
C7_ExpiredCallRestamps ==
    [][\A w \in Workers :
          EndsTemplateCall(w) /\ Expired(loc[w].ng)
              => heap'[loc[w].ng].lastRefresh = now]_vars

\* C7: within the window a cached template changes only by Refresh clearing it, and a
\* call answers with the cached data, looks no flavor up and leaves the cache alone;
\* a call made after the window has run out looks the flavor up exactly once and,
\* when the lookup succeeds, caches what it answers and stamps it with the time
C7_CacheWindow ==
    [][/\ \A ref \in DOMAIN heap :
             InWindow(ref) /\ heap'[ref].templateNodeInfo # NoTemplate
                 => /\ heap'[ref].templateNodeInfo = heap[ref].templateNodeInfo
                    /\ heap'[ref].lastRefresh = heap[ref].lastRefresh
       /\ \A w \in Workers :
             pc[w] = "tpl_lock" /\ pc'[w] # "tpl_lock" /\ InWindow(loc[w].ng)
                 => /\ pc'[w] = "done"
                    /\ ret'[w].code = "OK"
                    /\ ret'[w].node = heap[loc[w].ng].templateNodeInfo
                    /\ calls'[w].flavor = 0
                    /\ heap' = heap
       /\ \A w \in Workers :
             pc[w] = "tpl_lock" /\ pc'[w] # "tpl_lock" /\ Expired(loc[w].ng)
                 => pc'[w] = "tpl_build" /\ calls'[w].flavor = 0
       /\ \A w \in Workers :
             EndsTemplateCall(w) /\ Expired(loc[w].ng)
                 => /\ calls'[w].flavor = 1
                    /\ ret'[w].code = "OK"
                          => /\ heap'[loc[w].ng].lastRefresh = now
                             /\ heap'[loc[w].ng].templateNodeInfo = ret'[w].node
                    /\ ret'[w].code # "OK"
                          => /\ heap'[loc[w].ng].lastRefresh = heap[loc[w].ng].lastRefresh
                             /\ heap'[loc[w].ng].templateNodeInfo
                                    = heap[loc[w].ng].templateNodeInfo]_vars

\* a call made after the window ran out has looked the flavor up once, in vain: the
\* cache still holds the old template under its old stamp
C7_Witness ==
    \E w \in Workers :
        /\ pc[w] = "done" /\ req[w].op = "TemplateNodeInfo"
        /\ ret[w].code = "Internal"
        /\ calls[w].flavor = 1
        /\ Expired(loc[w].ng)

-----------------------------------------------------------------------------
(* Claims about the protocol adapter's answers.                            *)

\* the request in hand failed on its own input: a delta of the wrong sign, or a
\* provider id without the prefix at the place where DeleteNodes stopped
InvalidInput(w) ==
    \/ req[w].op = "IncreaseSize" /\ req[w].delta <= 0
    \/ req[w].op = "DecreaseTargetSize" /\ req[w].delta >= 0
    \/ /\ req[w].op = "DeleteNodes"
       /\ loc[w].i < Len(req[w].nodes)
       /\ LacksPrefix(req[w].nodes[loc[w].i + 1])

\* C11 as stated: a failed request is answered NotFound when its group is missing,
\* InvalidArgument when its own input was invalid, and Internal otherwise
C11_ErrorCodeByKind ==
    \A w \in Workers :
        pc[w] = "done" /\ ret[w].code # "OK"
        => ret[w].code = IF loc[w].ng = NilRef THEN "NotFound"
                         ELSE IF InvalidInput(w) THEN "InvalidArgument"
                         ELSE "Internal"

-----------------------------------------------------------------------------
(* The query operations, and AdapterSpec: every handler of the protocol    *)
(* adapter that addresses a group or an instance, served one at a time.    *)

\* NodeGroupTargetSize, up to the call of TargetSize
NodeGroupTargetSize(w) ==
    /\ \E id \in RequestIDs :
          /\ Accept(w, Request("TargetSize", id, 0, <<>>))
          /\ IF GetNodeGroup(id) = NilRef THEN Reply(w, "NotFound", "node group not found")
             ELSE Goto(w, "size_list")
    /\ UNCHANGED <<nodeGroups, heap, pmutex, servers, nextID, catalog, now, probe, boot>>

\* TargetSize over one listing of the backend, and the handler's answer
TargetSizeList(w) ==
    /\ pc[w] = "size_list"
    /\ calls' = [calls EXCEPT ![w].list = @ + 1]
    /\ \E up \in BOOLEAN :
          IF ~up
          THEN /\ loc' = [loc EXCEPT ![w].err = "failed to list servers"]
               /\ Reply(w, "Internal", "failed to get target size")
          ELSE /\ UNCHANGED loc
               /\ pc' = [pc EXCEPT ![w] = "done"]
               /\ ret' = [ret EXCEPT ![w] =
                             [NoReply EXCEPT !.code = "OK",
                                             !.size = TargetSize(ConfigOf(w).ID, servers)]]
    /\ UNCHANGED <<nodeGroups, heap, pmutex, servers, nextID, catalog, now,
                   req, disturbed, probe, boot>>

\* the mutant: an instance being built is reported without a status
InstanceStateWithoutBuild(status) ==
    CASE status = "ACTIVE" -> "instanceRunning"
      [] status \in {"DELETED", "DELETING"} -> "instanceDeleting"
      [] OTHER -> "unspecified"

\* NodeGroupNodes: the protocol status of an instance in this backend status
InstanceState(status) ==
    CASE status = "ACTIVE" -> "instanceRunning"
      [] status = "BUILD" -> "instanceCreating"
      [] status \in {"DELETED", "DELETING"} -> "instanceDeleting"
      [] OTHER -> "unspecified"

\* NodeGroupNodes, up to the call of Nodes
NodeGroupNodes(w) ==
    /\ \E id \in RequestIDs :
          /\ Accept(w, Request("Nodes", id, 0, <<>>))
          /\ IF GetNodeGroup(id) = NilRef THEN Reply(w, "NotFound", "node group not found")
             ELSE Goto(w, "nodes_list")
    /\ UNCHANGED <<nodeGroups, heap, pmutex, servers, nextID, catalog, now, probe, boot>>

\* Nodes over one listing of the backend, and the handler's conversion of the
\* instances to protocol instances
NodesList(w) ==
    /\ pc[w] = "nodes_list"
    /\ calls' = [calls EXCEPT ![w].list = @ + 1]
    /\ \E up \in BOOLEAN :
          IF ~up
          THEN /\ loc' = [loc EXCEPT ![w].err = "failed to list servers"]
               /\ Reply(w, "Internal", "failed to get nodes")
          ELSE /\ UNCHANGED loc
               /\ pc' = [pc EXCEPT ![w] = "done"]
               /\ ret' = [ret EXCEPT ![w] =
                             [NoReply EXCEPT
                                 !.code = "OK",
                                 !.instances =
                                     {[Id |-> s.ID, InstanceState |-> InstanceState(s.Status)] :
                                         s \in getInstances(ConfigOf(w).ID, servers)}]]
    /\ UNCHANGED <<nodeGroups, heap, pmutex, servers, nextID, catalog, now,
                   req, disturbed, probe, boot>>

\* NodeGroupGetOptions: the defaults of the request are handed back
NodeGroupGetOptions(w) ==
    /\ \E id \in RequestIDs, defaults \in BOOLEAN :
          /\ Accept(w, [Request("GetOptions", id, 0, <<>>) EXCEPT !.defaults = defaults])
          /\ IF GetNodeGroup(id) = NilRef THEN Reply(w, "NotFound", "node group not found")
             ELSE IF ~defaults THEN Reply(w, "InvalidArgument", "defaults are required")
             ELSE Reply(w, "OK", Nil)
    /\ UNCHANGED <<nodeGroups, heap, pmutex, servers, nextID, catalog, now, probe, boot>>

\* the nodes a NodeGroupForNode request may carry: none, or one with a provider id
\* of the pool or of one of the other instances
ForNodeRequests ==
    {<<>>} \cup {<<providerID>> :
                    providerID \in NodePool \cup {ProviderID(<<"b">>), ProviderID(<<"c">>)}}

\* NodeGroupForNode, up to the fetch of the instance: a request without a node is
\* refused; an error of the provider's NodeGroupForNode is logged and answered with
\* the empty group
NodeGroupForNode(w) ==
    /\ boot.pc = "serving"
    /\ pc[w] = "idle"
    /\ \E nodes \in ForNodeRequests :
          /\ req' = [req EXCEPT ![w] = Request("NodeGroupForNode", <<>>, 0, nodes)]
          /\ calls' = [calls EXCEPT ![w] = NoCalls]
          /\ disturbed' = [disturbed EXCEPT ![w] = FALSE]
          /\ IF nodes = <<>>
             THEN /\ Reply(w, "InvalidArgument", "node is required")
                  /\ loc' = [loc EXCEPT ![w] = NoLocals]
             ELSE IF Malformed(nodes[1])
             THEN /\ loc' = [loc EXCEPT ![w] =
                                [NoLocals EXCEPT !.err = "invalid provider ID format"]]
                  /\ Reply(w, "OK", Nil)
             ELSE /\ loc' = [loc EXCEPT ![w] = NoLocals]
                  /\ Goto(w, "for_get")
    /\ UNCHANGED <<nodeGroups, heap, pmutex, servers, nextID, catalog, now, probe, boot>>

\* the mutant: the search ends at whatever group the map yields first
FindNodeGroupUnasked(server) == {nodeGroups[id] : id \in DOMAIN nodeGroups} \cup {NilRef}

\* NodeGroupForNode, the loop over p.nodeGroups: the groups it can end at.  The order
\* of a map's iteration is not fixed, so it ends at any group that takes the instance
\* for its own, and at nil when none does
FindNodeGroup(server) ==
    LET owners == {id \in DOMAIN nodeGroups :
                      ContainsNode(heap[nodeGroups[id]].Config.ID, server)}
    IN  IF owners = {} THEN {NilRef} ELSE {nodeGroups[id] : id \in owners}

\* the loop of NodeGroupForNode holds no lock: it races with an AddNodeGroup that is
\* inside its critical section
ScanRaces == pmutex.w # Nil

\* the process after the runtime has thrown "concurrent map iteration and map write"
Crashed == [pc |-> "fatal", validated |-> TRUE]

\* NodeGroupForNode: the instance is fetched and the directory searched, in the
\* map's order, for a group that takes it for its own.  A search that races with a
\* write of the map is a data race: it ends as a search of the map as it was, or the
\* runtime ends the process
NodeGroupForNodeGet(w) ==
    /\ pc[w] = "for_get"
    /\ calls' = [calls EXCEPT ![w].get = @ + 1]
    /\ LET serverID == TrimPrefix(req[w].nodes[1], ProviderPrefix)
       IN  \E up \in BOOLEAN :
              IF ~up \/ ~Found(serverID)
              THEN /\ loc' = [loc EXCEPT ![w].err = "failed to get server"]
                   /\ Reply(w, "OK", Nil)
                   /\ UNCHANGED boot
              ELSE LET server == CHOOSE s \in servers : s.ID = serverID
                   IN  \/ /\ \E ref \in FindNodeGroup(server) :
                                 /\ loc' = [loc EXCEPT ![w].ng = ref]
                                 /\ ret' = [ret EXCEPT ![w] =
                                               [NoReply EXCEPT !.code = "OK", !.ng = ref]]
                          /\ pc' = [pc EXCEPT ![w] = "done"]
                          /\ UNCHANGED boot
                       \/ /\ ScanRaces
                          /\ boot' = Crashed
                          /\ pc' = [v \in Workers |-> "fatal"]
                          /\ UNCHANGED <<loc, ret>>
    /\ UNCHANGED <<nodeGroups, heap, pmutex, servers, nextID, catalog, now,
                   req, disturbed, probe>>

\* the directory as the process has it, empty, or as AddNodeGroup can have filled it
\* PricingNodePrice: not implemented, whatever node the request names
PricingNodePrice(w) ==
    /\ boot.pc = "serving"
    /\ pc[w] = "idle"
    /\ \E id \in RequestIDs :
          req' = [req EXCEPT ![w] = Request("PricingNodePrice", id, 0, <<>>)]
    /\ calls' = [calls EXCEPT ![w] = NoCalls]
    /\ Reply(w, "Unimplemented", "PricingNodePrice not implemented")
    /\ UNCHANGED <<nodeGroups, heap, pmutex, servers, nextID, catalog, now,
                   loc, disturbed, probe, boot>>

\* PricingPodPrice: not implemented, whatever pod the request names
PricingPodPrice(w) ==
    /\ boot.pc = "serving"
    /\ pc[w] = "idle"
    /\ \E id \in RequestIDs :
          req' = [req EXCEPT ![w] = Request("PricingPodPrice", id, 0, <<>>)]
    /\ calls' = [calls EXCEPT ![w] = NoCalls]
    /\ Reply(w, "Unimplemented", "PricingPodPrice not implemented")
    /\ UNCHANGED <<nodeGroups, heap, pmutex, servers, nextID, catalog, now,
                   loc, disturbed, probe, boot>>

\* the mutant: GPU nodes are given a label
GPULabelNvidia(w) ==
    /\ boot.pc = "serving"
    /\ pc[w] = "idle"
    /\ req' = [req EXCEPT ![w] = Request("GPULabel", <<>>, 0, <<>>)]
    /\ calls' = [calls EXCEPT ![w] = NoCalls]
    /\ pc' = [pc EXCEPT ![w] = "done"]
    /\ ret' = [ret EXCEPT ![w] = [NoReply EXCEPT !.code = "OK", !.label = "nvidia.com/gpu"]]
    /\ UNCHANGED <<nodeGroups, heap, pmutex, servers, nextID, catalog, now,
                   loc, disturbed, probe, boot>>

\* GPULabel: Label: "", no GPU label for OpenStack
GPULabel(w) ==
    /\ boot.pc = "serving"
    /\ pc[w] = "idle"
    /\ req' = [req EXCEPT ![w] = Request("GPULabel", <<>>, 0, <<>>)]
    /\ calls' = [calls EXCEPT ![w] = NoCalls]
    /\ pc' = [pc EXCEPT ![w] = "done"]
    /\ ret' = [ret EXCEPT ![w] = [NoReply EXCEPT !.code = "OK", !.label = ""]]
    /\ UNCHANGED <<nodeGroups, heap, pmutex, servers, nextID, catalog, now,
                   loc, disturbed, probe, boot>>

\* GetAvailableGPUTypes: GpuTypes: make(map[string]*anypb.Any), a map without keys
GetAvailableGPUTypes(w) ==
    /\ boot.pc = "serving"
    /\ pc[w] = "idle"
    /\ req' = [req EXCEPT ![w] = Request("GetAvailableGPUTypes", <<>>, 0, <<>>)]
    /\ calls' = [calls EXCEPT ![w] = NoCalls]
    /\ pc' = [pc EXCEPT ![w] = "done"]
    /\ ret' = [ret EXCEPT ![w] = [NoReply EXCEPT !.code = "OK", !.gpuTypes = {}]]
    /\ UNCHANGED <<nodeGroups, heap, pmutex, servers, nextID, catalog, now,
                   loc, disturbed, probe, boot>>

AdapterInit ==
    /\ \E dir \in {<<>>} \cup Directories :
          /\ heap = [i \in 1..Len(dir) |-> NewOpenStackNodeGroup(dir[i])]
          /\ nodeGroups = [id \in {dir[i].ID : i \in 1..Len(dir)} |->
                              CHOOSE i \in 1..Len(dir) : dir[i].ID = id]
    /\ pmutex = FreeMutex
    /\ servers \in StartingServers
    /\ nextID = 1
    /\ catalog = {FlavorSmall}
    /\ now = 0
    /\ WorkersIdle
    /\ boot = Booted
    /\ probe = NoProbe

AdapterNext ==
    \/ \E w \in Serial : NodeGroupTargetSize(w)
    \/ \E w \in Serial : TargetSizeList(w)
    \/ \E w \in Serial : NodeGroupIncreaseSize(w)
    \/ \E w \in Serial : IncreaseSizeCheck(w)
    \/ \E w \in Serial : IncreaseSizeCreate(w)
    \/ \E w \in Serial : NodeGroupDecreaseTargetSize(w)
    \/ \E w \in Serial : DecreaseTargetSizeCheck(w)
    \/ \E w \in Serial : NodeGroupDeleteNodes(w)
    \/ \E w \in Serial : DeleteNode(w)
    \/ \E w \in Serial : NodeGroupNodes(w)
    \/ \E w \in Serial : NodesList(w)
    \/ \E w \in Serial : NodeGroupTemplateNodeInfo(w)
    \/ \E w \in Serial : TemplateNodeInfoLock(w)
    \/ \E w \in Serial : TemplateNodeInfoBuild(w)
    \/ \E w \in Serial : NodeGroupGetOptions(w)
    \/ \E w \in Serial : NodeGroupForNode(w)
    \/ \E w \in Serial : NodeGroupForNodeGet(w)
    \/ \E w \in Serial : PricingNodePrice(w)
    \/ \E w \in Serial : PricingPodPrice(w)
    \/ \E w \in Serial : GPULabel(w)
    \/ \E w \in Serial : GetAvailableGPUTypes(w)
    \/ \E w \in Serial : Return(w)

AdapterSpec == AdapterInit /\ [][AdapterNext]_vars

\* the operations of the protocol that address a group by its id
GroupOps ==
    {"TargetSize", "IncreaseSize", "DecreaseTargetSize", "DeleteNodes", "Nodes",
     "TemplateNodeInfo", "GetOptions"}

\* C12: the step that takes up a group-addressed request whose id the directory does
\* not hold ends the request with NotFound, issues no backend call and leaves the
\* backend, the directory and every group object, its cache included, as they were
C12_UnknownGroupNotFound ==
    [][\A w \in Workers :
          /\ pc[w] = "idle" /\ pc'[w] # "idle"
          /\ req'[w].op \in GroupOps
          /\ req'[w].id \notin DOMAIN nodeGroups
          => /\ pc'[w] = "done"
             /\ ret'[w].code = "NotFound"
             /\ calls'[w] = NoCalls
             /\ servers' = servers /\ nextID' = nextID
             /\ nodeGroups' = nodeGroups
             /\ heap' = heap]_vars

\* a DeleteNodes for the unknown group x, naming an instance the backend holds, was
\* answered NotFound while another group's template stands cached
C12_Witness ==
    \E w \in Workers :
        /\ pc[w] = "done" /\ req[w].op = "DeleteNodes" /\ req[w].id = GX
        /\ req[w].nodes = <<ProviderID(<<"a">>)>>
        /\ Found(<<"a">>)
        /\ ret[w].code = "NotFound" /\ calls[w] = NoCalls
        /\ \E ref \in DOMAIN heap : heap[ref].templateNodeInfo # NoTemplate

\* C13 as stated: once a group-addressed request has been handled, the directory
\* holds a group under the id the request named
C13_FirstReferenceCreates ==
    \A w \in Workers :
        pc[w] = "done" /\ req[w].op \in GroupOps => req[w].id \in DOMAIN nodeGroups

\* C14 as stated: a NodeGroupForNode whose provider id lacks the prefix is answered
\* InvalidArgument, one whose fetch of the instance failed is answered with an error,
\* and the empty group is answered only after a fetch that succeeded
C14_FailureReported ==
    \A w \in Workers :
        pc[w] = "done" /\ req[w].op = "NodeGroupForNode" /\ req[w].nodes # <<>>
        => /\ LacksPrefix(req[w].nodes[1]) => ret[w].code = "InvalidArgument"
           /\ loc[w].err = "failed to get server" => ret[w].code # "OK"
           /\ ret[w].code = "OK" /\ ret[w].ng = NilRef
                 => calls[w].get = 1 /\ loc[w].err = Nil

-----------------------------------------------------------------------------
(* Claims about operations that stop half way.                             *)

\* C15: an IncreaseSize(delta) that failed on a creation failed on the last one it
\* attempted, the i-th with 1 <= i <= delta; the i-1 instances it created before are
\* on the backend, and it issued no delete
C15_PartialIncreaseStays ==
    \A w \in Workers :
        Finished(w, "IncreaseSize") /\ ret[w].err = "failed to create server"
        => /\ 1 <= calls[w].create /\ calls[w].create <= req[w].delta
           /\ loc[w].i = calls[w].create - 1
           /\ Cardinality(CreatedBy(w)) = calls[w].create - 1
           /\ \A s \in CreatedBy(w) : ContainsNode(ConfigOf(w).ID, s)
           /\ calls[w].delete = 0

\* an IncreaseSize(2) whose second creation failed: the first instance is there
C15_Witness ==
    \E w \in Workers :
        /\ Finished(w, "IncreaseSize") /\ ret[w].err = "failed to create server"
        /\ req[w].delta = 2 /\ calls[w].create = 2
        /\ Cardinality(CreatedBy(w)) = 1

\* C16: a DeleteNodes that failed stopped at the reference after the loc[w].i it had
\* worked off: each of those is gone from the backend, one delete call went out for
\* each of them, and at most one more, for the reference it failed on; a DeleteNodes
\* that succeeded worked off its whole list
C16_DeleteStopsAtFirstFailure ==
    \A w \in Workers :
        /\ Succeeded(w, "DeleteNodes")
           => loc[w].i = Len(req[w].nodes) /\ calls[w].delete = Len(req[w].nodes)
        /\ Finished(w, "DeleteNodes") /\ ret[w].code # "OK"
           => /\ loc[w].i < Len(req[w].nodes)
              /\ \A j \in 1..loc[w].i :
                    /\ ~LacksPrefix(req[w].nodes[j])
                    /\ ~Found(TrimPrefix(req[w].nodes[j], ProviderPrefix))
              /\ calls[w].delete =
                    IF LacksPrefix(req[w].nodes[loc[w].i + 1]) THEN loc[w].i ELSE loc[w].i + 1

\* DeleteNodes(a, s1) deleted a and failed on s1, which the backend does not hold
C16_Witness ==
    \E w \in Workers :
        /\ Finished(w, "DeleteNodes") /\ ret[w].err = "failed to delete server"
        /\ req[w].nodes = <<ProviderID(<<"a">>), ProviderID(<<"s","1">>)>>
        /\ loc[w].i = 1 /\ calls[w].delete = 2
        /\ ~Found(<<"a">>)

-----------------------------------------------------------------------------
(* StartSpec: func main from its first statement to grpcServer.Serve, and  *)
(* the requests served from then on.  The directory is empty, as           *)
(* NewOpenStackProvider leaves it, so every group-addressed handler ends   *)
(* with its lookup.                                                        *)

\* klog.Fatalf: the process has exited
Fatal == [pc |-> "fatal", validated |-> FALSE]

\* func main at position at, ValidateConfiguration not yet passed
Booting(at) == [pc |-> at, validated |-> FALSE]

\* main: cfg, err := loadConfiguration()
LoadConfiguration ==
    /\ boot.pc = "start"
    /\ \E ok \in BOOLEAN : boot' = IF ok THEN Booting("loaded") ELSE Fatal
    /\ UNCHANGED <<nodeGroups, heap, pmutex, servers, nextID, catalog, now,
                   pc, req, loc, ret, calls, disturbed, probe>>

\* main: provider.NewOpenStackProvider(cfg), an empty directory once the clients
\* are initialized
CreateProvider ==
    /\ boot.pc = "loaded"
    /\ \E ok \in BOOLEAN : boot' = IF ok THEN Booting("created") ELSE Fatal
    /\ nodeGroups' = <<>>
    /\ heap' = <<>>
    /\ pmutex' = FreeMutex
    /\ UNCHANGED <<servers, nextID, catalog, now,
                   pc, req, loc, ret, calls, disturbed, probe>>

\* OpenStackProvider.ValidateConfiguration: the flavors and the images are listed,
\* then every group of the directory resolves its flavor and its image
ValidateConfiguration(flavorsUp, imagesUp) ==
    IF ~flavorsUp THEN "failed to validate compute client"
    ELSE IF ~imagesUp THEN "failed to validate image client"
    ELSE IF \E ref \in DOMAIN heap : getFlavor(heap[ref].Config, catalog) = {}
    THEN "node group validation failed"
    ELSE Nil

\* the mutant: main goes on whatever the validation said
ValidationFatalNever(err) == FALSE

\* main: if err := openstackProvider.ValidateConfiguration(...); err != nil { klog.Fatalf }
ValidationFatal(err) == err # Nil

\* main validates the configuration
Validate ==
    /\ boot.pc = "created"
    /\ \E flavorsUp, imagesUp \in BOOLEAN :
          LET err == ValidateConfiguration(flavorsUp, imagesUp)
          IN  boot' = IF ValidationFatal(err) THEN Fatal
                      ELSE [pc |-> "validated", validated |-> err = Nil]
    /\ UNCHANGED <<nodeGroups, heap, pmutex, servers, nextID, catalog, now,
                   pc, req, loc, ret, calls, disturbed, probe>>

\* main registers the service, listens and calls grpcServer.Serve
Serve ==
    /\ boot.pc = "validated"
    /\ \E ok \in BOOLEAN :
          boot' = IF ok THEN [boot EXCEPT !.pc = "serving"] ELSE Fatal
    /\ UNCHANGED <<nodeGroups, heap, pmutex, servers, nextID, catalog, now,
                   pc, req, loc, ret, calls, disturbed, probe>>

StartInit ==
    /\ nodeGroups = <<>>
    /\ heap = <<>>
    /\ pmutex = FreeMutex
    /\ servers \in StartingServers
    /\ nextID = 1
    /\ catalog = {FlavorSmall}
    /\ now = 0
    /\ WorkersIdle
    /\ boot = Booting("start")
    /\ probe = NoProbe

StartNext ==
    \/ LoadConfiguration
    \/ CreateProvider
    \/ Validate
    \/ Serve
    \/ \E w \in Serial : NodeGroupTargetSize(w)
    \/ \E w \in Serial : NodeGroupIncreaseSize(w)
    \/ \E w \in Serial : NodeGroupDecreaseTargetSize(w)
    \/ \E w \in Serial : NodeGroupDeleteNodes(w)
    \/ \E w \in Serial : NodeGroupNodes(w)
    \/ \E w \in Serial : NodeGroupTemplateNodeInfo(w)
    \/ \E w \in Serial : NodeGroupGetOptions(w)
    \/ \E w \in Serial : NodeGroupForNode(w)
    \/ \E w \in Serial : NodeGroupForNodeGet(w)
    \/ \E w \in Serial : Refresh(w)
    \/ \E w \in Serial : Return(w)

StartSpec == StartInit /\ [][StartNext]_vars

\* C17: a request is in hand only while main is serving, and main serves only after
\* ValidateConfiguration has passed; once main has exited it stays so and no request
\* is taken up
C17_ServeOnlyValidated ==
    /\ [](/\ (\E w \in Workers : pc[w] # "idle") => boot.pc = "serving"
          /\ boot.pc = "serving" => boot.validated
          /\ boot.pc = "fatal" => \A w \in Workers : pc[w] = "idle")
    /\ [][boot.pc = "fatal" => boot'.pc = "fatal" /\ pc' = pc]_vars

\* main is serving after a validation that passed, and a request has been answered
C17_Witness ==
    /\ boot.pc = "serving" /\ boot.validated
    /\ \E w \in Workers : pc[w] = "done" /\ req[w].op = "TargetSize"

-----------------------------------------------------------------------------
(* StatusSpec: the size and the instance list of the groups of a populated *)
(* directory, over backends whose instances are in every kind of status.   *)

\* backend statuses: the four the adapter knows, and others, among them one that
\* differs from ACTIVE by its case only
Statuses == {"ACTIVE", "BUILD", "DELETED", "DELETING", "ERROR", "SHUTOFF", "active"}

StatusInit ==
    /\ \E dir \in Directories :
          /\ heap = [i \in 1..Len(dir) |-> NewOpenStackNodeGroup(dir[i])]
          /\ nodeGroups = [id \in {dir[i].ID : i \in 1..Len(dir)} |->
                              CHOOSE i \in 1..Len(dir) : dir[i].ID = id]
    /\ pmutex = FreeMutex
    /\ \E sa, sb, sc \in Statuses :
          servers = { Server(<<"a">>, RandomName, [k \in {"nodegroup"} |-> G1], sa),
                      Server(<<"b">>, WorkerName, NoMetadata, sb),
                      Server(<<"c">>, OtherName, NoMetadata, sc) }
    /\ nextID = 1
    /\ catalog = {FlavorSmall}
    /\ now = 0
    /\ WorkersIdle
    /\ boot = Booted
    /\ probe = NoProbe

StatusNext ==
    \/ \E w \in Serial : NodeGroupTargetSize(w)
    \/ \E w \in Serial : TargetSizeList(w)
    \/ \E w \in Serial : NodeGroupNodes(w)
    \/ \E w \in Serial : NodesList(w)
    \/ \E w \in Serial : Return(w)

StatusSpec == StatusInit /\ [][StatusNext]_vars

\* the instance is the group's by the attribution rule: by its tag when it has one,
\* by its name otherwise
Attributed(id, s) ==
    IF "nodegroup" \in DOMAIN s.Metadata
    THEN s.Metadata["nodegroup"] = id
    ELSE OccursIn(id, s.Name)

\* the instance counts for the size of its group
Counted(s) == s.Status = "ACTIVE" \/ s.Status = "BUILD"

\* the backend instance a protocol instance stands for
ServerOf(instance) == CHOOSE s \in servers : s.ID = instance.Id

\* C18: every instance NodeGroupNodes reports has one of the four protocol statuses:
\* running for ACTIVE, provisioning for BUILD, deleting for DELETED and DELETING,
\* unspecified for any other; and it is counted by the target size of its group
\* exactly when it is reported running or provisioning
C18_StatusMapping ==
    \A w \in Workers :
        Succeeded(w, "Nodes") =>
            \A instance \in ret[w].instances :
                LET s     == ServerOf(instance)
                    state == instance.InstanceState
                IN  /\ state \in {"instanceRunning", "instanceCreating",
                                  "instanceDeleting", "unspecified"}
                    /\ state = "instanceRunning" <=> s.Status = "ACTIVE"
                    /\ state = "instanceCreating" <=> s.Status = "BUILD"
                    /\ state = "instanceDeleting" <=> s.Status \in {"DELETED", "DELETING"}
                    /\ TargetSize(ConfigOf(w).ID, {s}) = 1
                          <=> state \in {"instanceRunning", "instanceCreating"}

\* g1's instances reported: one provisioning, one with the status "active", which
\* is reported unspecified and not counted
C18_Witness ==
    \E w \in Workers :
        /\ Succeeded(w, "Nodes") /\ req[w].id = G1
        /\ [Id |-> <<"a">>, InstanceState |-> "instanceCreating"] \in ret[w].instances
        /\ [Id |-> <<"b">>, InstanceState |-> "unspecified"] \in ret[w].instances
        /\ ServerOf([Id |-> <<"b">>]).Status = "active"
        /\ CurrentTargetSize(w) = 1

\* C19: the step in which TargetSize lists the backend answers with exactly the number
\* of instances that are attributed to the group and are ACTIVE or BUILD; it answers
\* with a failure when the listing fails; and it leaves the backend's instances, the
\* directory and every group object as they were, having issued one listing and no
\* creation or deletion
C19_TargetSizeExact ==
    [][\A w \in Workers :
          pc[w] = "size_list" /\ pc'[w] = "done" =>
              /\ IF loc'[w].err # Nil
                 THEN ret'[w].code = "Internal" /\ ret'[w].size = 0
                 ELSE /\ ret'[w].code = "OK"
                      /\ ret'[w].size =
                            Cardinality({s \in servers :
                                Attributed(ConfigOf(w).ID, s) /\ Counted(s)})
              /\ servers' = servers /\ nextID' = nextID
              /\ heap' = heap /\ nodeGroups' = nodeGroups
              /\ calls'[w].list = 1
              /\ calls'[w].create = 0 /\ calls'[w].delete = 0]_vars

\* the size of g1, 1, over a backend of three instances: the DELETING one is g1's by
\* its tag and is not counted, the BUILD one is g1's by its name and is counted, the
\* ACTIVE one is not g1's
C19_Witness ==
    \E w \in Workers :
        /\ Succeeded(w, "TargetSize") /\ req[w].id = G1
        /\ ret[w].size = 1
        /\ \E s \in servers : s.ID = <<"a">> /\ s.Status = "DELETING"
        /\ \E s \in servers : s.ID = <<"b">> /\ s.Status = "BUILD"
        /\ \E s \in servers : s.ID = <<"c">> /\ s.Status = "ACTIVE"

\* C20: the step in which Nodes lists the backend answers with the instances attributed
\* to the group, whatever their status, and with no other; the number of them reported
\* running or provisioning, which are those ACTIVE or BUILD, is the group's target size
\* over the same instances
C20_InstancesExact ==
    [][\A w \in Workers :
          pc[w] = "nodes_list" /\ pc'[w] = "done" /\ ret'[w].code = "OK" =>
              /\ {instance.Id : instance \in ret'[w].instances} =
                    {s.ID : s \in {t \in servers : Attributed(ConfigOf(w).ID, t)}}
              /\ Cardinality({instance \in ret'[w].instances :
                     instance.InstanceState \in {"instanceRunning", "instanceCreating"}})
                    = TargetSize(ConfigOf(w).ID, servers)
              /\ Cardinality({instance \in ret'[w].instances : Counted(ServerOf(instance))})
                    = TargetSize(ConfigOf(w).ID, servers)]_vars

\* g1's two instances reported, one in ERROR and one DELETED, while its size is 0; the
\* ACTIVE instance that is not g1's is not reported
C20_Witness ==
    \E w \in Workers :
        /\ Succeeded(w, "Nodes") /\ req[w].id = G1
        /\ {instance.Id : instance \in ret[w].instances} = {<<"a">>, <<"b">>}
        /\ ServerOf([Id |-> <<"a">>]).Status = "ERROR"
        /\ ServerOf([Id |-> <<"b">>]).Status = "DELETED"
        /\ ServerOf([Id |-> <<"c">>]).Status = "ACTIVE"
        /\ CurrentTargetSize(w) = 0

-----------------------------------------------------------------------------
(* Claims about the groups the directory holds.                            *)

\* the bounds of the configuration are in order: 0 <= minSize <= maxSize
BoundsInOrder(cfg) == 0 <= cfg.MinSize /\ cfg.MinSize <= cfg.MaxSize

\* C25: every group of the directory has a non-empty id and bounds in order; the step
\* that ends an AddNodeGroup for a new id whose configuration has minSize < 0 or
\* maxSize < minSize ends it with an error and leaves the directory and the group
\* objects as they were
C25_BoundsEnforcedAtCreation ==
    /\ [](\A id \in DOMAIN nodeGroups :
             /\ id # <<>>
             /\ heap[nodeGroups[id]].Config.ID = id
             /\ BoundsInOrder(heap[nodeGroups[id]].Config))
    /\ [][\A w \in Workers :
             /\ pc[w] = "add_body" /\ pc'[w] = "done"
             /\ req[w].id \notin DOMAIN nodeGroups
             /\ ~BoundsInOrder(req[w].cfg)
             => /\ ret'[w].code = "Error"
                /\ ret'[w].ng = NilRef
                /\ nodeGroups' = nodeGroups
                /\ heap' = heap]_vars

\* an AddNodeGroup with maxSize < minSize has failed while the other worker's group
\* is in the directory, which holds nothing under the id of the failed call
C25_Witness ==
    \E w, v \in Workers :
        /\ pc[w] = "done" /\ req[w].op = "AddNodeGroup" /\ ret[w].code = "Error"
        /\ req[w].cfg.MaxSize < req[w].cfg.MinSize /\ req[w].cfg.MinSize >= 0
        /\ req[w].id \notin DOMAIN nodeGroups
        /\ Added(v) /\ DOMAIN nodeGroups = {req[v].id}

-----------------------------------------------------------------------------
(* Claims about the search for the group of an instance.                   *)

\* the instance worker w's NodeGroupForNode request names, as the backend holds it
FetchedBy(w) ==
    CHOOSE s \in servers : s.ID = TrimPrefix(req[w].nodes[1], ProviderPrefix)

\* the groups of the directory that claim the instance under the attribution rule
Claimants(s) ==
    {ref \in DOMAIN heap :
        /\ heap[ref].Config.ID \in DOMAIN nodeGroups
        /\ nodeGroups[heap[ref].Config.ID] = ref
        /\ Attributed(heap[ref].Config.ID, s)}

\* C30: the step in which NodeGroupForNode has fetched the instance and searched the
\* directory ends at a group of the directory that claims the instance, and at no
\* group exactly when no group of the directory claims it
C30_GroupForInstance ==
    [][\A w \in Workers :
          pc[w] = "for_get" /\ pc'[w] = "done" /\ loc'[w].err = Nil =>
              /\ ret'[w].code = "OK"
              /\ ret'[w].ng # NilRef => ret'[w].ng \in Claimants(FetchedBy(w))
              /\ ret'[w].ng = NilRef <=> Claimants(FetchedBy(w)) = {}]_vars

\* the search for instance b, which g1 and g both claim by its name, has ended at g
C30_Witness ==
    \E w \in Workers :
        /\ pc[w] = "done" /\ req[w].op = "NodeGroupForNode" /\ loc[w].err = Nil
        /\ req[w].nodes = <<ProviderID(<<"b">>)>>
        /\ Cardinality(Claimants(FetchedBy(w))) = 2
        /\ ret[w].ng # NilRef /\ heap[ret[w].ng].Config.ID = G

-----------------------------------------------------------------------------
(* Claims about Refresh, one request at a time.                            *)

\* the group's cache is in the state Refresh leaves it in
Invalidated(ng) == ng.templateNodeInfo = NoTemplate /\ ng.lastRefresh = ZeroTime

\* worker w's Refresh request is answered with this step
EndsRefresh(w) == pc[w] # "done" /\ pc'[w] = "done" /\ req'[w].op = "Refresh"

-----------------------------------------------------------------------------
(* CacheSpec: the template caches with two requests in flight at once:     *)
(* TemplateNodeInfo with its critical section in steps, Refresh group by   *)
(* group, and callers that write to the template they were handed.         *)

\* TemplateNodeInfo: ng.mutex.Lock()
TemplateNodeInfoAcquire(w) ==
    /\ pc[w] = "tpl_lock"
    /\ CanLock(heap[loc[w].ng].mutex)
    /\ heap' = [heap EXCEPT ![loc[w].ng].mutex.w = w]
    /\ Goto(w, "tpl_held")
    /\ UNCHANGED <<nodeGroups, pmutex, servers, nextID, catalog, now,
                   req, loc, calls, disturbed, probe, boot>>

\* TemplateNodeInfo inside its critical section: a fresh cache is copied out and the
\* deferred Unlock runs; otherwise the call goes on to the build, the lock kept
TemplateNodeInfoCached(w) ==
    /\ pc[w] = "tpl_held"
    /\ LET ref == loc[w].ng
       IN  IF CacheFresh(heap[ref])
           THEN /\ heap' = [heap EXCEPT ![ref].mutex.w = Nil]
                /\ pc' = [pc EXCEPT ![w] = "done"]
                /\ ret' = [ret EXCEPT ![w] =
                              [NoReply EXCEPT !.code = "OK",
                                              !.node = DeepCopy(heap[ref].templateNodeInfo),
                                              !.obj = DeepCopyObject("cached")]]
           ELSE /\ Goto(w, "tpl_build")
                /\ UNCHANGED heap
    /\ UNCHANGED <<nodeGroups, pmutex, servers, nextID, catalog, now,
                   req, loc, calls, disturbed, probe, boot>>

\* the groups of the directory
Groups == {nodeGroups[id] : id \in DOMAIN nodeGroups}

\* the Refresh handler, up to the provider's p.mutex.RLock()
RefreshLock(w) ==
    /\ boot.pc = "serving"
    /\ pc[w] = "idle"
    /\ CanRLock(pmutex)
    /\ pmutex' = [pmutex EXCEPT !.r = @ \cup {w}]
    /\ req' = [req EXCEPT ![w] = Request("Refresh", <<>>, 0, <<>>)]
    /\ loc' = [loc EXCEPT ![w] = NoLocals]
    /\ calls' = [calls EXCEPT ![w] = NoCalls]
    /\ disturbed' = [disturbed EXCEPT ![w] = FALSE]
    /\ Goto(w, "refresh_loop")
    /\ UNCHANGED <<nodeGroups, heap, servers, nextID, catalog, now, probe, boot>>

\* one round of the provider's loop: the Refresh of a group not yet visited, which
\* takes the group's lock, clears the cache and releases the lock
RefreshGroup(w) ==
    /\ pc[w] = "refresh_loop"
    /\ \E ref \in Groups \ loc[w].visited :
          /\ CanLock(heap[ref].mutex)
          /\ heap' = [heap EXCEPT ![ref] = NodeGroupRefresh(@)]
          /\ loc' = [loc EXCEPT ![w].visited = @ \cup {ref}]
          /\ calls' = [calls EXCEPT ![w].dropped = @ \cup (FreshCaches \cap {ref})]
    /\ UNCHANGED <<nodeGroups, pmutex, servers, nextID, catalog, now,
                   pc, req, ret, disturbed, probe, boot>>

\* the mutant: the Refresh handler answers without the deferred RUnlock
RefreshReturnKeepsLock(w) ==
    /\ pc[w] = "refresh_loop"
    /\ loc[w].visited = Groups
    /\ Reply(w, "OK", Nil)
    /\ UNCHANGED <<nodeGroups, heap, pmutex, servers, nextID, catalog, now,
                   req, loc, calls, disturbed, probe, boot>>

\* the loop is over: the deferred RUnlock, and the handler's answer
RefreshReturn(w) ==
    /\ pc[w] = "refresh_loop"
    /\ loc[w].visited = Groups
    /\ pmutex' = [pmutex EXCEPT !.r = @ \ {w}]
    /\ Reply(w, "OK", Nil)
    /\ UNCHANGED <<nodeGroups, heap, servers, nextID, catalog, now,
                   req, loc, calls, disturbed, probe, boot>>

\* what a caller's write makes of a template
Mutated(node) == [node EXCEPT !.Ready = FALSE]

\* the caller of TemplateNodeInfo writes to the template it was handed: the write
\* shows wherever the object written to is held
CallerMutates(w) ==
    /\ pc[w] = "done" /\ req[w].op = "TemplateNodeInfo" /\ ret[w].code = "OK"
    /\ ret[w].node.Ready
    /\ LET ref    == loc[w].ng
           cached == /\ ret[w].obj = "cached"
                     /\ heap[ref].templateNodeInfo = ret[w].node
       IN  /\ heap' = IF cached
                      THEN [heap EXCEPT ![ref].templateNodeInfo = Mutated(@)]
                      ELSE heap
           /\ ret' = [v \in Workers |->
                         IF v = w \/ (cached /\ ret[v].obj = "cached" /\ loc[v].ng = ref
                                             /\ ret[v].node = ret[w].node)
                         THEN [ret[v] EXCEPT !.node = Mutated(@)]
                         ELSE ret[v]]
    /\ UNCHANGED <<nodeGroups, pmutex, servers, nextID, catalog, now,
                   pc, req, loc, calls, disturbed, probe, boot>>

CacheInit ==
    /\ \E dir \in TplDirectories :
          /\ heap = [i \in 1..Len(dir) |-> NewOpenStackNodeGroup(dir[i])]
          /\ nodeGroups = [id \in {dir[i].ID : i \in 1..Len(dir)} |->
                              CHOOSE i \in 1..Len(dir) : dir[i].ID = id]
    /\ pmutex = FreeMutex
    /\ servers = {}
    /\ nextID = 1
    /\ catalog \in Catalogs
    /\ now = 0
    /\ WorkersIdle
    /\ boot = Booted
    /\ probe = NoProbe

CacheNext ==
    \/ \E w \in Workers : NodeGroupTemplateNodeInfo(w)
    \/ \E w \in Workers : TemplateNodeInfoAcquire(w)
    \/ \E w \in Workers : TemplateNodeInfoCached(w)
    \/ \E w \in Workers : TemplateNodeInfoBuild(w)
    \/ \E w \in Workers : RefreshLock(w)
    \/ \E w \in Workers : RefreshGroup(w)
    \/ \E w \in Workers : RefreshReturn(w)
    \/ \E w \in Workers : CallerMutates(w)
    \/ \E w \in Workers : Return(w)

CacheSpec == CacheInit /\ [][CacheNext]_vars

\* worker w's Refresh visits group ref with this step
RefreshVisits(w, ref) ==
    /\ pc[w] = "refresh_loop"
    /\ ref \notin loc[w].visited
    /\ ref \in loc'[w].visited

\* C21: the Refresh of a group invalidates the group's cache and changes nothing else:
\* not the group's configuration, not another group, not the directory, not the
\* backend's instances, and it calls the backend for nothing; and a TemplateNodeInfo
\* call that finds the cache invalidated goes on to look the flavor up, which it has
\* done once when it ends, however short a time ago the cache was filled
C21_RefreshInvalidatesOnly ==
    [][/\ \A w \in Workers : \A ref \in DOMAIN heap :
             RefreshVisits(w, ref) =>
                 /\ Invalidated(heap'[ref])
                 /\ heap'[ref].Config = heap[ref].Config
                 /\ heap'[ref].mutex = heap[ref].mutex
                 /\ \A other \in DOMAIN heap \ {ref} : heap'[other] = heap[other]
                 /\ nodeGroups' = nodeGroups
                 /\ servers' = servers /\ nextID' = nextID /\ catalog' = catalog
                 /\ [calls'[w] EXCEPT !.dropped = {}] = NoCalls
       /\ \A w \in Workers :
             pc[w] = "tpl_held" /\ pc'[w] # "tpl_held" /\ Invalidated(heap[loc[w].ng])
                 => pc'[w] = "tpl_build" /\ calls'[w].flavor = 0
       /\ \A w \in Workers :
             pc[w] = "tpl_build" /\ pc'[w] # "tpl_build"
                 => pc'[w] = "done" /\ calls'[w].flavor = 1]_vars

\* one worker's Refresh has dropped the fresh template of a group, and within the
\* window of the dropped template the other worker's TemplateNodeInfo has looked the
\* flavor up and filled the cache again
C21_Witness ==
    \E w, v \in Workers : \E ref \in DOMAIN heap :
        /\ w # v
        /\ req[w].op = "Refresh" /\ ref \in calls[w].dropped
        /\ Succeeded(v, "TemplateNodeInfo") /\ loc[v].ng = ref
        /\ calls[v].flavor = 1
        /\ InWindow(ref) /\ now < TemplateTTL

\* the templates buildTemplateNodeInfo makes for the group, whatever the catalog held
Pristine(ref) ==
    {buildTemplateNodeInfo(heap[ref].Config, flavor) : flavor \in UNION Catalogs}

\* C22: a template in a group's cache is as buildTemplateNodeInfo made it, whatever
\* callers wrote to the templates they were handed; a caller's write changes no cache
\* and no template another caller holds; and a call served from the cache answers
\* with the data the cache holds
C22_CallersCannotReachCache ==
    /\ [](\A ref \in DOMAIN heap :
             heap[ref].templateNodeInfo # NoTemplate
                 => heap[ref].templateNodeInfo \in Pristine(ref))
    /\ [][/\ \A w \in Workers :
                pc[w] = "done" /\ pc'[w] = "done" /\ ret'[w].node # ret[w].node
                    => /\ heap' = heap
                       /\ \A v \in Workers \ {w} : ret'[v] = ret[v]
          /\ \A w \in Workers :
                pc[w] = "tpl_held" /\ pc'[w] = "done"
                    => /\ ret'[w].node = heap[loc[w].ng].templateNodeInfo
                       /\ ret'[w].node \in Pristine(loc[w].ng)
                       /\ heap'[loc[w].ng].templateNodeInfo
                              = heap[loc[w].ng].templateNodeInfo]_vars

\* the caller whose call filled the cache of a group has written to its template; the
\* other caller, served from that cache, holds the template as it was built, and so
\* does the cache, still inside its window
C22_Witness ==
    \E w, v \in Workers :
        /\ w # v /\ loc[w].ng = loc[v].ng
        /\ Succeeded(w, "TemplateNodeInfo") /\ calls[w].flavor = 1
        /\ ~ret[w].node.Ready
        /\ Succeeded(v, "TemplateNodeInfo") /\ calls[v].flavor = 0
        /\ ret[v].node.Ready
        /\ InWindow(loc[w].ng)
        /\ heap[loc[w].ng].templateNodeInfo = ret[v].node

\* C23 as stated: a TemplateNodeInfo call that would be served from a fresh cache
\* enters its critical section while another such call is inside its own, so two
\* reads of a fresh cache are in their critical sections at the same time; a call that
\* fills the cache is alone in the group's lock
C23_FreshReadsOverlap ==
    /\ \A w, v \in Workers :
          /\ w # v /\ loc[w].ng = loc[v].ng
          /\ pc[w] = "tpl_held" /\ CacheFresh(heap[loc[w].ng])
          /\ pc[v] = "tpl_lock"
          => ENABLED TemplateNodeInfoAcquire(v)
    /\ \A w, v \in Workers :
          w # v /\ loc[w].ng = loc[v].ng /\ pc[w] = "tpl_build"
              => pc[v] \notin {"tpl_held", "tpl_build"}

-----------------------------------------------------------------------------
(* ScanSpec: the directory from its construction on, with groups added,    *)
(* looked up and searched for the group of an instance by two workers at   *)
(* once.                                                                   *)

ScanInit ==
    /\ nodeGroups = <<>>
    /\ heap = <<>>
    /\ pmutex = FreeMutex
    /\ servers \in StartingServers
    /\ nextID = 1
    /\ catalog = {FlavorSmall}
    /\ now = 0
    /\ WorkersIdle
    /\ boot = Booted
    /\ probe = NoProbe

ScanNext ==
    \/ \E w \in Workers : AddNodeGroupLock(w)
    \/ \E w \in Workers : AddNodeGroupBody(w)
    \/ \E w \in Workers : GetNodeGroupCall(w)
    \/ \E w \in Workers : NodeGroupForNode(w)
    \/ \E w \in Workers : NodeGroupForNodeGet(w)
    \/ \E w \in Workers : Return(w)

ScanSpec == ScanInit /\ [][ScanNext]_vars

\* worker w reads the directory with this step: a lookup by id, or the search that
\* follows the fetch of an instance
ReadsDirectory(w) ==
    \/ pc[w] = "idle" /\ req'[w].op = "GetNodeGroup"
    \/ pc[w] = "for_get" /\ pc'[w] # "for_get" /\ loc'[w].err = Nil

\* C24 as stated: no read of the directory is made while a creation holds the
\* directory's lock for writing
C24_ReadsExcludeCreation ==
    [][\A w \in Workers : ReadsDirectory(w) => pmutex.w = Nil]_vars

-----------------------------------------------------------------------------
(* ResolveSpec: the resolution of a group's flavor and image, and the      *)
(* group's ValidateConfiguration, over what the backend can answer.        *)

\* the longest listing the backend answers with
MaxListed == 2

\* the catalog's flavors: two of one name, one whose id is a name, one whose name
\* differs from m1.small by its case
FlavorPool ==
    { FlavorSmall,
      [ID |-> "f2", Name |-> "m1.small", VCPUs |-> 4, RAM |-> 1024],
      [ID |-> "m1.tiny", Name |-> "tiny", VCPUs |-> 1, RAM |-> 256],
      [ID |-> "f4", Name |-> "M1.small", VCPUs |-> 8, RAM |-> 2048] }

\* the image catalog: two images of one name, and another
ImagePool ==
    { [ID |-> "img-1", Name |-> "ubuntu"],
      [ID |-> "img-2", Name |-> "ubuntu"],
      [ID |-> "img-3", Name |-> "debian"] }

\* the listings of a catalog: its entries in any order, none twice
Listings(pool) ==
    {l \in UNION {[1..n -> pool] : n \in 0..MaxListed} :
        \A i, j \in DOMAIN l : i # j => l[i] # l[j]}

NoFlavor == [ID |-> "", Name |-> "", VCPUs |-> 0, RAM |-> 0]

\* the mutant: the scan of the catalog keeps the last flavor of the name
LastNamed(name, allFlavors) ==
    LET named == {i \in DOMAIN allFlavors : allFlavors[i].Name = name}
    IN  IF named = {} THEN 0 ELSE CHOOSE i \in named : \A j \in named : j <= i

\* getFlavor, the loop over the listing: the place of the first flavor of that name, 0
\* when there is none
FirstNamed(name, allFlavors) ==
    LET named == {i \in DOMAIN allFlavors : allFlavors[i].Name = name}
    IN  IF named = {} THEN 0 ELSE CHOOSE i \in named : \A j \in named : i <= j

\* getFlavor, call by call: flavors.Get takes the configured name for an id and
\* answers when the backend is up and holds a flavor of that id; otherwise the
\* catalog is listed and scanned
getFlavorOf(cfg, getUp, listUp, allFlavors) ==
    LET byID == {i \in DOMAIN allFlavors : allFlavors[i].ID = cfg.FlavorName}
        at   == FirstNamed(cfg.FlavorName, allFlavors)
    IN  IF getUp /\ byID # {}
        THEN [flavor |-> allFlavors[CHOOSE i \in byID : TRUE], err |-> Nil]
        ELSE IF ~listUp THEN [flavor |-> NoFlavor, err |-> "failed to list flavors"]
        ELSE IF at = 0 THEN [flavor |-> NoFlavor, err |-> "flavor not found"]
        ELSE [flavor |-> allFlavors[at], err |-> Nil]

\* images.List with ListOpts{Name}: the images of that name, in the catalog's order
ImagesNamed(name, allImages) == SelectSeq(allImages, LAMBDA image : image.Name = name)

\* the mutant: the catalog is asked even when an image id is configured
getImageIDAlwaysLists(cfg, listUp, allImages) ==
    LET found == ImagesNamed(cfg.ImageName, allImages)
    IN  IF ~listUp THEN [id |-> "", err |-> "failed to list images", listed |-> 1]
        ELSE IF Len(found) = 0 THEN [id |-> "", err |-> "image not found", listed |-> 1]
        ELSE [id |-> found[1].ID, err |-> Nil, listed |-> 1]

\* getImageID: the configured id as it is, or the id of the first image the catalog
\* lists under the configured name; listed counts the calls of the backend
getImageID(cfg, listUp, allImages) ==
    LET found == ImagesNamed(cfg.ImageName, allImages)
    IN  IF cfg.ImageID # "" THEN [id |-> cfg.ImageID, err |-> Nil, listed |-> 0]
        ELSE IF ~listUp THEN [id |-> "", err |-> "failed to list images", listed |-> 1]
        ELSE IF Len(found) = 0 THEN [id |-> "", err |-> "image not found", listed |-> 1]
        ELSE [id |-> found[1].ID, err |-> Nil, listed |-> 1]

\* the group's ValidateConfiguration: the flavor first, then the image
NodeGroupValidateConfiguration(flavorErr, imageErr) ==
    IF flavorErr # Nil THEN "flavor validation failed"
    ELSE IF imageErr # Nil THEN "image validation failed"
    ELSE Nil

\* the configurations resolved: a flavor named by name, by id, or unknown; an image
\* named by name, by an id the catalog holds or does not hold, by both, or by a name
\* the catalog does not hold
ResolveConfigs ==
    { Config(G1, 1, 5, flavor, image[1], image[2], NoMetadata) :
        flavor \in {"m1.small", "m1.tiny", "m1.huge"},
        image \in {<<"ubuntu", "">>, <<"", "img-1">>, <<"", "img-9">>,
                   <<"ubuntu", "img-9">>, <<"centos", "">>} }

NoAnswer == [flavor |-> NoFlavor, id |-> "", err |-> Nil, listed |-> 0]

ResolveInit ==
    /\ nodeGroups = <<>>
    /\ heap = <<>>
    /\ pmutex = FreeMutex
    /\ servers = {}
    /\ nextID = 1
    /\ catalog = {FlavorSmall}
    /\ now = 0
    /\ WorkersIdle
    /\ boot = Booted
    /\ \E cfg \in ResolveConfigs, getUp, listUp, imagesUp \in BOOLEAN,
          allFlavors \in Listings(FlavorPool), allImages \in Listings(ImagePool) :
          probe = [cfg |-> cfg, getUp |-> getUp, listUp |-> listUp, imagesUp |-> imagesUp,
                   allFlavors |-> allFlavors, allImages |-> allImages,
                   asked |-> "nothing", answer |-> NoAnswer]

\* the group's flavor is resolved
ResolveFlavor ==
    /\ probe.asked = "nothing"
    /\ LET r == getFlavorOf(probe.cfg, probe.getUp, probe.listUp, probe.allFlavors)
       IN  probe' = [probe EXCEPT !.asked = "getFlavor",
                                  !.answer = [NoAnswer EXCEPT !.flavor = r.flavor,
                                                              !.err = r.err]]
    /\ UNCHANGED <<nodeGroups, heap, pmutex, servers, nextID, catalog, now,
                   pc, req, loc, ret, calls, disturbed, boot>>

\* the group's image is resolved
ResolveImage ==
    /\ probe.asked = "nothing"
    /\ LET r == getImageID(probe.cfg, probe.imagesUp, probe.allImages)
       IN  probe' = [probe EXCEPT !.asked = "getImageID",
                                  !.answer = [NoAnswer EXCEPT !.id = r.id, !.err = r.err,
                                                              !.listed = r.listed]]
    /\ UNCHANGED <<nodeGroups, heap, pmutex, servers, nextID, catalog, now,
                   pc, req, loc, ret, calls, disturbed, boot>>

\* the group's configuration is validated
ValidateGroup ==
    /\ probe.asked = "nothing"
    /\ LET f == getFlavorOf(probe.cfg, probe.getUp, probe.listUp, probe.allFlavors)
           i == getImageID(probe.cfg, probe.imagesUp, probe.allImages)
       IN  probe' = [probe EXCEPT
                        !.asked = "ValidateConfiguration",
                        !.answer = [NoAnswer EXCEPT
                                       !.err = NodeGroupValidateConfiguration(f.err, i.err)]]
    /\ UNCHANGED <<nodeGroups, heap, pmutex, servers, nextID, catalog, now,
                   pc, req, loc, ret, calls, disturbed, boot>>

ResolveNext ==
    \/ ResolveFlavor
    \/ ResolveImage
    \/ ValidateGroup

ResolveSpec == ResolveInit /\ [][ResolveNext]_vars

\* the direct lookup of the configured flavor succeeds
DirectHit ==
    probe.getUp /\ \E i \in DOMAIN probe.allFlavors :
                      probe.allFlavors[i].ID = probe.cfg.FlavorName

\* the places of the listing that hold a flavor of exactly the configured name
NamedAt == {i \in DOMAIN probe.allFlavors : probe.allFlavors[i].Name = probe.cfg.FlavorName}

\* C26: getFlavor answers with the flavor of the direct lookup when that succeeds;
\* when it fails, with the first flavor of the listing whose name is exactly the
\* configured one; it fails for a flavor not found exactly when the direct lookup
\* fails, the listing succeeds and holds no flavor of that name, and with the error of
\* the listing exactly when the direct lookup and the listing both fail
C26_FlavorResolution ==
    probe.asked = "getFlavor" =>
        LET a == probe.answer
        IN  /\ DirectHit => a.err = Nil /\ a.flavor.ID = probe.cfg.FlavorName
                                        /\ \E i \in DOMAIN probe.allFlavors :
                                              probe.allFlavors[i] = a.flavor
            /\ ~DirectHit /\ probe.listUp /\ NamedAt # {} =>
                  /\ a.err = Nil
                  /\ \E i \in NamedAt : /\ a.flavor = probe.allFlavors[i]
                                        /\ \A j \in NamedAt : i <= j
            /\ a.err = "flavor not found" <=> ~DirectHit /\ probe.listUp /\ NamedAt = {}
            /\ a.err = "failed to list flavors" <=> ~DirectHit /\ ~probe.listUp
            /\ a.err \in {Nil, "flavor not found", "failed to list flavors"}

\* the direct lookup of m1.small finds no flavor of that id; the listing holds two
\* flavors of that name, f2 before f1, and the answer is f2
C26_Witness ==
    /\ probe.asked = "getFlavor" /\ probe.getUp /\ ~DirectHit
    /\ probe.cfg.FlavorName = "m1.small"
    /\ Len(probe.allFlavors) = 2
    /\ probe.allFlavors[1].ID = "f2" /\ probe.allFlavors[2].ID = "f1"
    /\ probe.answer.err = Nil /\ probe.answer.flavor.ID = "f2"

\* the images of the listing that bear the configured name, in the listing's order
ImagesAt == {i \in DOMAIN probe.allImages : probe.allImages[i].Name = probe.cfg.ImageName}

\* C27: with an image id configured getImageID answers with that id as it is and
\* calls the backend for nothing; otherwise it lists the images of the configured
\* name once and answers with the id of the first, failing for an image not found
\* exactly when the listing succeeds and holds no image of that name
C27_ImageResolution ==
    probe.asked = "getImageID" =>
        LET a == probe.answer
        IN  /\ probe.cfg.ImageID # "" =>
                  a.id = probe.cfg.ImageID /\ a.err = Nil /\ a.listed = 0
            /\ probe.cfg.ImageID = "" =>
                  /\ a.listed = 1
                  /\ probe.imagesUp /\ ImagesAt # {} =>
                        /\ a.err = Nil
                        /\ \E i \in ImagesAt : /\ a.id = probe.allImages[i].ID
                                               /\ \A j \in ImagesAt : i <= j
                  /\ ~probe.imagesUp => a.err = "failed to list images"
            /\ a.err = "image not found"
                  <=> probe.cfg.ImageID = "" /\ probe.imagesUp /\ ImagesAt = {}

\* no image id is configured and the catalog lists two images named ubuntu, img-2
\* before img-1: the answer is img-2, after one call of the backend
C27_Witness ==
    /\ probe.asked = "getImageID"
    /\ probe.cfg.ImageID = "" /\ probe.cfg.ImageName = "ubuntu"
    /\ Len(probe.allImages) = 2
    /\ probe.allImages[1].ID = "img-2" /\ probe.allImages[2].ID = "img-1"
    /\ probe.answer = [NoAnswer EXCEPT !.id = "img-2", !.listed = 1]

\* the backend can resolve the flavor the configuration declares
FlavorOnBackend == DirectHit \/ (probe.listUp /\ NamedAt # {})

\* the backend holds the image the configuration declares, by its id when one is
\* configured, by its name otherwise
ImageOnBackend ==
    /\ probe.imagesUp
    /\ IF probe.cfg.ImageID # ""
       THEN \E i \in DOMAIN probe.allImages : probe.allImages[i].ID = probe.cfg.ImageID
       ELSE ImagesAt # {}

\* C28 as stated: the group's ValidateConfiguration succeeds only when the backend
\* resolves both the declared flavor and the declared image, and fails whenever it
\* cannot resolve one of them
C28_ValidationResolvesBoth ==
    probe.asked = "ValidateConfiguration" =>
        (probe.answer.err = Nil <=> FlavorOnBackend /\ ImageOnBackend)

-----------------------------------------------------------------------------
(* AdapterLiveSpec: the handlers of AdapterSpec, where the goroutine that  *)
(* serves a request keeps running and every backend call it makes returns. *)

\* a request in hand, between its arrival and its response
InHand(w) == pc[w] \notin {"idle", "done", "fatal"}

\* the next step of the request worker w has in hand
HandlerStep(w) ==
    /\ pc[w] \notin {"idle", "done", "fatal"}
    /\ AdapterNext
    /\ pc'[w] # pc[w] \/ loc'[w] # loc[w]

AdapterLiveSpec == AdapterSpec /\ \A w \in Serial : WF_vars(HandlerStep(w))

\* C31 as stated, its second part: within one request no backend call that failed is
\* issued again (here the direct flavor lookup of createServer fails at most once)
C31_NoFailedCallReissued ==
    \A w \in Workers : calls[w].missed <= 1

\* C31 as amended: every request in hand gets its response; a request issues at most
\* one instance listing, an IncreaseSize(delta) at most delta creation calls, a
\* DeleteNodes at most one delete per reference; a request that has its response,
\* failed or not, issues no further call; the direct flavor lookup that fails is
\* repeated, once for every creation and no more often
C31_TerminatesWithBoundedCalls ==
    /\ \A w \in Serial : InHand(w) ~> pc[w] = "done"
    /\ [](\A w \in Workers :
             /\ calls[w].list <= 1
             /\ req[w].op = "IncreaseSize" =>
                   /\ calls[w].create <= req[w].delta \/ calls[w].create = 0
                   /\ calls[w].missed <= calls[w].create
             /\ req[w].op # "IncreaseSize" => calls[w].create = 0 /\ calls[w].missed = 0
             /\ req[w].op = "DeleteNodes" => calls[w].delete <= Len(req[w].nodes)
             /\ req[w].op # "DeleteNodes" => calls[w].delete = 0)
    /\ [][\A w \in Workers :
             pc[w] = "done" => calls'[w] = calls[w] \/ calls'[w] = NoCalls]_vars

\* an IncreaseSize(2) that succeeded after one listing and two creations, each of
\* which repeated the direct flavor lookup that had failed
C31_Witness ==
    \E w \in Workers :
        /\ Succeeded(w, "IncreaseSize") /\ req[w].delta = 2
        /\ calls[w].list = 1 /\ calls[w].create = 2 /\ calls[w].missed = 2

-----------------------------------------------------------------------------
(* Claims about the operations that address no group.                      *)

GPUAndPricingOps ==
    {"PricingNodePrice", "PricingPodPrice", "GPULabel", "GetAvailableGPUTypes"}

\* C32: wherever a worker is idle each GPU and pricing operation can be served, and
\* the step that serves one answers at once, GPULabel with the empty label,
\* GetAvailableGPUTypes with a map without keys, the pricing queries with
\* Unimplemented, issuing no backend call and leaving the directory, the groups,
\* the locks, the backend's instances and the catalog as they were
C32_GPUAndPricingInert ==
    /\ [](\A w \in Serial :
             boot.pc = "serving" /\ pc[w] = "idle" =>
                /\ ENABLED PricingNodePrice(w) /\ ENABLED PricingPodPrice(w)
                /\ ENABLED GPULabel(w) /\ ENABLED GetAvailableGPUTypes(w))
    /\ [][\A w \in Workers :
             pc[w] = "idle" /\ req'[w].op \in GPUAndPricingOps =>
                /\ pc'[w] = "done"
                /\ calls'[w] = NoCalls
                /\ UNCHANGED <<nodeGroups, heap, pmutex, servers, nextID, catalog>>
                /\ req'[w].op = "GPULabel" =>
                      ret'[w] = [NoReply EXCEPT !.code = "OK", !.label = ""]
                /\ req'[w].op = "GetAvailableGPUTypes" =>
                      ret'[w] = [NoReply EXCEPT !.code = "OK", !.gpuTypes = {}]
                /\ req'[w].op \in {"PricingNodePrice", "PricingPodPrice"} =>
                      ret'[w].code = "Unimplemented"]_vars

\* a GPULabel answered with the empty label while the directory holds two groups and
\* the backend holds instances
C32_Witness ==
    \E w \in Workers :
        /\ pc[w] = "done" /\ req[w].op = "GPULabel"
        /\ ret[w].code = "OK" /\ ret[w].label = ""
        /\ Cardinality(DOMAIN nodeGroups) = 2 /\ servers # {}

-----------------------------------------------------------------------------
(* Claims about the order of IncreaseSize's steps.                         *)

\* C33: an IncreaseSize request issues a creation call only from its creation loop,
\* which it enters only from a listing that succeeded and a capacity check that
\* passed on the size that listing gave, and it lists only once delta > 0 is
\* validated; with delta <= 0 it fails on arrival without any backend call, and a
\* failed listing ends it with nothing created
C33_IncreaseStepsInOrder ==
    [][\A w \in Workers :
          /\ calls'[w].create > calls[w].create =>
                /\ pc[w] = "inc_create" /\ req[w].delta > 0
                /\ calls[w].list = 1
                /\ loc[w].currentSize + req[w].delta <= ConfigOf(w).MaxSize
          /\ pc'[w] = "inc_create" /\ pc[w] # "inc_create" =>
                /\ pc[w] = "inc_list"
                /\ calls'[w].list = 1 /\ calls'[w].create = 0
                /\ loc'[w].currentSize = CurrentTargetSize(w)
                /\ CurrentTargetSize(w) + req[w].delta <= ConfigOf(w).MaxSize
          /\ pc'[w] = "inc_list" /\ pc[w] # "inc_list" =>
                /\ pc[w] = "idle" /\ req'[w].delta > 0
                /\ calls'[w] = NoCalls
          /\ pc[w] = "idle" /\ req'[w].op = "IncreaseSize" /\ req'[w].delta <= 0 =>
                /\ pc'[w] = "done" /\ ret'[w].code # "OK"
                /\ calls'[w] = NoCalls /\ servers' = servers
          /\ pc[w] = "inc_list" /\ ret'[w].err = "failed to get current size" =>
                /\ pc'[w] = "done" /\ ret'[w].code # "OK"
                /\ calls'[w].create = 0 /\ servers' = servers]_vars

\* an IncreaseSize(1) on the group of max 5 that listed 4 instances and has issued its
\* one creation call after it
C33_Witness ==
    \E w \in Workers :
        /\ Finished(w, "IncreaseSize") /\ req[w].delta = 1
        /\ loc[w].currentSize = 4 /\ ConfigOf(w).MaxSize = 5
        /\ calls[w].list = 1 /\ calls[w].create = 1

-----------------------------------------------------------------------------
(* Claims about the instances IncreaseSize creates.                        *)

\* C34: the instance a creation step of an IncreaseSize on a group adds to the backend
\* carries that group's id as its "nodegroup" tag, whatever the group's configured
\* metadata says, and of the directory's groups that group and no other attributes it
C34_CreatedInstanceIsOwn ==
    [][\A w \in Workers :
          pc[w] = "inc_create" /\ calls'[w].create > calls[w].create =>
             \A s \in servers' \ servers :
                /\ "nodegroup" \in DOMAIN s.Metadata
                /\ s.Metadata["nodegroup"] = ConfigOf(w).ID
                /\ \A ref \in DOMAIN heap :
                      ContainsNode(heap[ref].Config.ID, s) <=> ref = loc[w].ng]_vars

\* the group g1, configured with the metadata nodegroup = g, has created an instance
\* named g1-0: it carries the tag g1, and the group g, whose id occurs in that name,
\* does not attribute it
C34_Witness ==
    \E w \in Workers, s \in servers :
        /\ Succeeded(w, "IncreaseSize") /\ ConfigOf(w).ID = G1
        /\ "nodegroup" \in DOMAIN ConfigOf(w).Metadata
        /\ ConfigOf(w).Metadata["nodegroup"] = G
        /\ G \in DOMAIN nodeGroups
        /\ s \in CreatedBy(w) /\ s.Name = G1 \o <<"-","0">>
        /\ Contains(s.Name, G) /\ s.Metadata["nodegroup"] = G1
        /\ ContainsNode(G1, s) /\ ~ContainsNode(G, s)

-----------------------------------------------------------------------------
(* Claims about what DeleteNodes consults.                                 *)

\* C35: a DeleteNodes with an empty list succeeds on arrival with no backend call; a
\* turn of its loop on a well-formed reference issues no listing and, unless the
\* backend fails the delete, removes the instance of that id and no other from the
\* backend, whichever group attributes it and whatever sizes result, and the request
\* succeeds with the turn on its last reference
C35_DeleteConsultsNothing ==
    [][\A w \in Workers :
          /\ /\ pc[w] = "idle" /\ req'[w].op = "DeleteNodes"
             /\ loc'[w].ng # NilRef /\ Len(req'[w].nodes) = 0
             => /\ pc'[w] = "done" /\ ret'[w].code = "OK"
                /\ calls'[w] = NoCalls /\ servers' = servers
          /\ /\ pc[w] = "del_loop"
             /\ pc'[w] # pc[w] \/ loc'[w] # loc[w]
             => LET providerID == req[w].nodes[loc[w].i + 1]
                    serverID   == TrimPrefix(providerID, ProviderPrefix)
                IN  /\ calls'[w].list = 0
                    /\ ret'[w].err = "invalid provider ID format" => LacksPrefix(providerID)
                    /\ /\ ~LacksPrefix(providerID)
                       /\ ret'[w].err # "failed to delete server"
                       => /\ calls'[w].delete = calls[w].delete + 1
                          /\ servers' = {s \in servers : s.ID # serverID}
                          /\ loc'[w].i = loc[w].i + 1
                          /\ pc'[w] = "done" <=> loc'[w].i = Len(req[w].nodes)
                          /\ pc'[w] = "done" => ret'[w].code = "OK"]_vars

\* a DeleteNodes addressed to the group g has deleted the instance a, which carried
\* the tag g1, and left the group g1 below its minSize of 2
C35_Witness ==
    \E w \in Workers :
        /\ Succeeded(w, "DeleteNodes") /\ ConfigOf(w).ID = G
        /\ req[w].nodes = <<ProviderID(<<"a">>)>>
        /\ calls[w].delete = 1 /\ calls[w].list = 0
        /\ \E s \in PreExisting : s.ID = <<"a">> /\ ContainsNode(G1, s) /\ ~ContainsNode(G, s)
        /\ ~Found(<<"a">>)
        /\ G1 \in DOMAIN nodeGroups
        /\ TargetSize(G1, servers) < heap[nodeGroups[G1]].Config.MinSize

-----------------------------------------------------------------------------
(* Claims about a template build that fails.                               *)

\* C36: the step in which a TemplateNodeInfo that had to rebuild fails to resolve the
\* flavor answers with an error, hands back no node and changes nothing of the group
\* but the release of its lock, so the cached template and its stamp stay as they
\* were; while that answer stands the cache is still not fresh, and every call that
\* finds the cache not fresh goes on to the flavor lookup
C36_FailedBuildLeavesCache ==
    /\ [][\A w \in Workers :
             pc[w] = "tpl_build" /\ pc'[w] = "done" /\ ret'[w].code # "OK" =>
                /\ ret'[w].code = "Internal" /\ ret'[w].node = NoTemplate
                /\ calls'[w].flavor = 1
                /\ heap' = [heap EXCEPT ![loc[w].ng].mutex.w = Nil]
                /\ ~CacheFresh(heap[loc[w].ng])]_vars
    /\ [](\A w \in Workers :
             Finished(w, "TemplateNodeInfo") /\ ret[w].code = "Internal"
                => ~CacheFresh(heap[loc[w].ng]))
    /\ [][\A w \in Workers :
             /\ pc[w] = "tpl_lock" /\ pc'[w] # "tpl_lock"
             /\ ~CacheFresh(heap[loc[w].ng])
             => pc'[w] = "tpl_build" /\ calls'[w].flavor = 0]_vars

\* a TemplateNodeInfo on a group that never had a template found no flavor in an
\* empty catalog: the cache is still empty and unstamped, the lock free
C36_Witness ==
    \E w \in Workers :
        /\ Finished(w, "TemplateNodeInfo") /\ ret[w].code = "Internal"
        /\ calls[w].flavor = 1 /\ catalog = {}
        /\ heap[loc[w].ng].templateNodeInfo = NoTemplate
        /\ heap[loc[w].ng].lastRefresh = ZeroTime
        /\ heap[loc[w].ng].mutex = FreeMutex

-----------------------------------------------------------------------------
(* Claims about Refresh and TemplateNodeInfo on one group.                 *)

\* worker w is inside TemplateNodeInfo's critical section on group ref
InCriticalSection(w, ref) == pc[w] \in {"tpl_held", "tpl_build"} /\ loc[w].ng = ref

\* C37: the Refresh of a group and a TemplateNodeInfo on it exclude each other. The
\* step in which a Refresh visits a group finds no TemplateNodeInfo inside its
\* critical section on that group, so no lookup is in flight that began before it,
\* and leaves the cache invalidated; while a call is inside its critical section the
\* group's cache changes only by that call's own write, which ends the call with
\* the template written; and two calls are never inside the critical section of one
\* group together. So a template found in the cache after a Refresh was looked up
\* by a call that entered its critical section after that Refresh
C37_RefreshAndBuildAtomic ==
    /\ [][\A v \in Workers : \A ref \in DOMAIN heap :
             RefreshVisits(v, ref) =>
                /\ \A w \in Workers : ~InCriticalSection(w, ref)
                /\ heap[ref].mutex = FreeMutex
                /\ Invalidated(heap'[ref])]_vars
    /\ [][\A w \in Workers : \A ref \in DOMAIN heap :
             /\ InCriticalSection(w, ref)
             /\ \/ heap'[ref].templateNodeInfo # heap[ref].templateNodeInfo
                \/ heap'[ref].lastRefresh # heap[ref].lastRefresh
             => /\ pc[w] = "tpl_build" /\ pc'[w] = "done"
                /\ ret'[w].code = "OK"
                /\ ret'[w].node = heap'[ref].templateNodeInfo
                /\ heap'[ref].lastRefresh = now]_vars
    /\ [](\A w \in Workers : \A ref \in DOMAIN heap :
             InCriticalSection(w, ref) =>
                /\ heap[ref].mutex.w = w
                /\ \A v \in Workers \ {w} : ~InCriticalSection(v, ref))

\* a Refresh that arrived during a build: one worker is looking the flavor up inside
\* the critical section of the only group, the other has entered Refresh and cannot
\* visit the group before the build has written the cache
C37_Witness ==
    \E w, v \in Workers : \E ref \in DOMAIN heap :
        /\ w # v
        /\ pc[w] = "tpl_build" /\ loc[w].ng = ref
        /\ pc[v] = "refresh_loop" /\ ref \notin loc[v].visited
        /\ Groups = {ref}
        /\ ~ENABLED RefreshGroup(v)
        /\ ENABLED TemplateNodeInfoBuild(w)

-----------------------------------------------------------------------------
(* LockSpec: the directory's lock and the groups' locks with two requests  *)
(* in flight at once: creations that wait for the directory, lookups,      *)
(* Refresh over all groups and TemplateNodeInfo.                           *)

\* AddNodeGroup is called while the directory's lock is taken: p.mutex.Lock() waits,
\* and holds off every RLock that comes after it
AddNodeGroupWait(w) ==
    /\ pc[w] = "idle"
    /\ ~CanLock(pmutex)
    /\ pmutex' = [pmutex EXCEPT !.q = @ \cup {w}]
    /\ \E cfg \in AddConfigs :
          req' = [req EXCEPT ![w] = [Request("AddNodeGroup", cfg.ID, 0, <<>>)
                                        EXCEPT !.cfg = cfg]]
    /\ loc' = [loc EXCEPT ![w] = NoLocals]
    /\ calls' = [calls EXCEPT ![w] = NoCalls]
    /\ Goto(w, "add_wait")
    /\ UNCHANGED <<nodeGroups, heap, servers, nextID, catalog, now, disturbed, probe,
                   boot>>

\* the waiting p.mutex.Lock() returns once the writer and the readers have left
AddNodeGroupWake(w) ==
    /\ pc[w] = "add_wait"
    /\ CanLock(pmutex)
    /\ pmutex' = [pmutex EXCEPT !.w = w, !.q = @ \ {w}]
    /\ Goto(w, "add_body")
    /\ UNCHANGED <<nodeGroups, heap, servers, nextID, catalog, now,
                   req, loc, calls, disturbed, probe, boot>>

LockNext ==
    \/ \E w \in Workers : AddNodeGroupLock(w)
    \/ \E w \in Workers : AddNodeGroupWait(w)
    \/ \E w \in Workers : AddNodeGroupWake(w)
    \/ \E w \in Workers : AddNodeGroupBody(w)
    \/ \E w \in Workers : GetNodeGroupCall(w)
    \/ \E w \in Workers : NodeGroupTemplateNodeInfo(w)
    \/ \E w \in Workers : TemplateNodeInfoAcquire(w)
    \/ \E w \in Workers : TemplateNodeInfoCached(w)
    \/ \E w \in Workers : TemplateNodeInfoBuild(w)
    \/ \E w \in Workers : RefreshLock(w)
    \/ \E w \in Workers : RefreshGroup(w)
    \/ \E w \in Workers : RefreshReturn(w)
    \/ \E w \in Workers : Return(w)

LockSpec == CacheInit /\ [][LockNext]_vars

\* the next step of the request worker w has in hand
LockStep(w) ==
    /\ pc[w] \notin {"idle", "done", "fatal"}
    /\ LockNext
    /\ pc'[w] # pc[w] \/ loc'[w] # loc[w]

\* the goroutine of a request keeps running, its backend calls return, and a
\* goroutine that waits for a lock gets it when the lock is free again and again
LockLiveSpec == LockSpec /\ \A w \in Workers : SF_vars(LockStep(w))

\* worker w holds the lock of a group
HoldsGroupLock(w) == \E ref \in DOMAIN heap : heap[ref].mutex.w = w

\* worker w holds the directory's lock, or waits for it
AtDirectoryLock(m, w) == m.w = w \/ w \in m.r \/ w \in m.q

\* C38: however creations, lookups, Refresh and TemplateNodeInfo interleave, a step
\* that takes the directory's lock or starts to wait for it is made by a worker that
\* holds no group's lock, no worker that holds a group's lock waits for the directory,
\* whenever requests are in hand one of them can take its next step, and every
\* request in hand gets its response
C38_NoDeadlock ==
    /\ [][\A w \in Workers :
             AtDirectoryLock(pmutex', w) /\ ~AtDirectoryLock(pmutex, w)
                => ~HoldsGroupLock(w)]_vars
    /\ [](\A w \in Workers :
             HoldsGroupLock(w) => ~AtDirectoryLock(pmutex, w))
    /\ []((\E w \in Workers : InHand(w))
             => \E w \in Workers : InHand(w) /\ ENABLED LockStep(w))
    /\ \A w \in Workers : InHand(w) ~> pc[w] = "done"

\* a creation waits for the directory's lock, which a Refresh with a group still to
\* visit holds for reading: the creation cannot go on, the Refresh can
C38_Witness ==
    \E w, v \in Workers :
        /\ pc[w] = "refresh_loop" /\ w \in pmutex.r
        /\ loc[w].visited # Groups
        /\ pc[v] = "add_wait" /\ v \in pmutex.q
        /\ ~ENABLED AddNodeGroupWake(v)
        /\ ENABLED RefreshGroup(w)

-----------------------------------------------------------------------------
(* GrowSpec: every operation of the protocol, served one at a time, on a   *)
(* directory to which AddNodeGroup adds groups in between.                 *)

\* Cleanup: the provider's Cleanup logs and returns nil
Cleanup(w) ==
    /\ boot.pc = "serving"
    /\ pc[w] = "idle"
    /\ req' = [req EXCEPT ![w] = Request("Cleanup", <<>>, 0, <<>>)]
    /\ calls' = [calls EXCEPT ![w] = NoCalls]
    /\ Reply(w, "OK", Nil)
    /\ UNCHANGED <<nodeGroups, heap, pmutex, servers, nextID, catalog, now,
                   loc, disturbed, probe, boot>>

GrowNext ==
    \/ AdapterNext
    \/ \E w \in Serial : Refresh(w)
    \/ \E w \in Serial : Cleanup(w)
    \/ \E w \in Serial : AddNodeGroupLock(w)
    \/ \E w \in Serial : AddNodeGroupBody(w)

GrowSpec == AdapterInit /\ [][GrowNext]_vars

\* C39: no step takes an id out of the directory or binds it to another group object,
\* and none changes the id, minSize or maxSize of a group object; the directory gains
\* an id only by AddNodeGroup; and every id is bound to a group of that id
C39_DirectoryGrowsEntriesStable ==
    /\ [][/\ \A id \in DOMAIN nodeGroups :
                id \in DOMAIN nodeGroups' /\ nodeGroups'[id] = nodeGroups[id]
          /\ \A ref \in DOMAIN heap :
                /\ ref \in DOMAIN heap'
                /\ heap'[ref].Config.ID = heap[ref].Config.ID
                /\ heap'[ref].Config.MinSize = heap[ref].Config.MinSize
                /\ heap'[ref].Config.MaxSize = heap[ref].Config.MaxSize
          /\ nodeGroups' # nodeGroups =>
                \E w \in Workers : pc[w] = "add_body" /\ req[w].op = "AddNodeGroup"]_vars
    /\ [](\A id \in DOMAIN nodeGroups : heap[nodeGroups[id]].Config.ID = id)

\* AddNodeGroup has added g1 with the bounds 0 and 2 and g next to it, and a Refresh
\* has since cleared both groups: g1 is where it was, its bounds still 0 and 2
C39_Witness ==
    \E w \in Workers :
        /\ pc[w] = "done" /\ req[w].op = "Refresh"
        /\ DOMAIN nodeGroups = {G1, G}
        /\ nodeGroups[G1] = 1 /\ nodeGroups[G] = 2
        /\ heap[1].Config.ID = G1
        /\ heap[1].Config.MinSize = 0 /\ heap[1].Config.MaxSize = 2
        /\ heap[1].Config.FlavorName = "m1.large"

====
